---- MODULE Spec2Model ----
(***************************************************************************)
(* Model of the Jungo rule engine: the Board (src/src/board.rs), its       *)
(* Zobrist position hash (src/src/zobrist.rs), the Game controller loop    *)
(* (src/src/game.rs) and the move choice of the agents (src/src/ai).       *)
(*                                                                         *)
(* A u64 hash value is represented by the set of its set bits (a subset of *)
(* 0..63); XOR of two values is the symmetric difference of the two sets.  *)
(***************************************************************************)
EXTENDS Integers, Sequences, FiniteSets, TLC

\* ---- bounds of the model ------------------------------------------------
\* Board::new(Size) is the board of Game::new and of the unit tests.
Size == 3
\* Inputs are the in-range cells with flat index <= MaxCell, plus two
\* out-of-range coordinates.
MaxCell == 5
\* Mcts::run_mcts runs at most MaxIterations iterations of its loop
MaxIterations == 3
\* MonteCarloAI::get_move runs at most MaxSimulations simulations
MaxSimulations == 3
\* Board-level calls stop once the two capture counters sum to MaxCaptured.
MaxCaptured == 2
\* Game::play stops taking moves once board_history holds MaxMoves + 1 hashes.
MaxMoves == 7
\* MinimaxAI::new(max_depth) is called with max_depth from 1 to MaxDepth
MaxDepth == 5
\* the boards MinimaxAI searches deeper than one ply have at most
\* MaxSearchPoints points
MaxSearchPoints == 4
\* The agents that search (MinimaxAI, MonteCarloAI, Mcts) are asked for a move
\* on positions with at most MaxOpen empty points
MaxOpen == 4

\* Board.size: the side of the board every Board operation below works on.
VARIABLE size

\* ---- program constants (board.rs) ----------------------------------------
EMPTY == 0
BLACK == 1
WHITE == 2

Stone == {"Black", "White"}
NoBoard == [none |-> TRUE]

\* ---- Stone --------------------------------------------------------------
Opposite(stone) == IF stone = "Black" THEN "White" ELSE "Black"

StoneToU8(stone) == IF stone = "Black" THEN BLACK ELSE WHITE

OppositeU8(stone_u8) ==
  IF stone_u8 = BLACK THEN WHITE
  ELSE IF stone_u8 = WHITE THEN BLACK
  ELSE EMPTY

\* ---- Zobrist table ------------------------------------------------------
\* XOR on u64 values held as sets of bit positions.
Xor(a, b) == (a \ b) \cup (b \ a)

\* Mutant: the keys are drawn from a two-bit range (the k-th draw is k mod 4),
\* so that XORs of different key sets coincide.
RngGenTwoBits(k) == {b \in 0..1 : (k \div (IF b = 0 THEN 1 ELSE 2)) % 2 = 1}

\* The k-th u64 drawn from StdRng::seed_from_u64(42).  The draws are modelled
\* as pairwise distinct, XOR-independent words: draw k has exactly bit k set.
RngGen(k) == {k}

\* ZobristTable::new: row by row, the black key of a cell is drawn, then its
\* white key.
ZobristNew(board_size) ==
  [black_table |-> [y \in 0..(board_size - 1) |->
                      [x \in 0..(board_size - 1) |-> RngGen(2 * (y * board_size + x))]],
   white_table |-> [y \in 0..(board_size - 1) |->
                      [x \in 0..(board_size - 1) |-> RngGen(2 * (y * board_size + x) + 1)]]]

ZobristTable == ZobristNew(size)

GetStoneHash(x, y, is_black) ==
  IF is_black THEN ZobristTable.black_table[y][x]
  ELSE ZobristTable.white_table[y][x]

\* ---- Board --------------------------------------------------------------
Index(x, y) == y * size + x

Cells == 0..(size * size - 1)

\* Mutant: the new board starts with one capture on White's counter.
BoardNewWithCredit ==
  [grid |-> [i \in Cells |-> EMPTY],
   captured |-> <<0, 1>>,
   current_hash |-> {}]

\* Board::new
BoardNew ==
  [grid |-> [i \in Cells |-> EMPTY],
   captured |-> <<0, 0>>,
   current_hash |-> {}]

GetRaw(g, x, y) == g[Index(x, y)]

GetHash(b) == b.current_hash

GetCaptured(b) == b.captured

\* get_neighbors_array: left, right, up, down, those that exist.
GetNeighborsArray(x, y) ==
  (IF x > 0 THEN << <<x - 1, y>> >> ELSE << >>)
  \o (IF x < size - 1 THEN << <<x + 1, y>> >> ELSE << >>)
  \o (IF y > 0 THEN << <<x, y - 1>> >> ELSE << >>)
  \o (IF y < size - 1 THEN << <<x, y + 1>> >> ELSE << >>)

\* get_group: flood fill with an explicit stack; visited is the set of
\* indices whose marker is true; the result lists the cells in pop order.
RECURSIVE GetGroupLoop(_, _, _, _, _)
GetGroupLoop(g, stone_u8, stack, visited, group) ==
  IF stack = << >> THEN group
  ELSE LET c == stack[Len(stack)]
           rest == SubSeq(stack, 1, Len(stack) - 1)
           idx == Index(c[1], c[2])
       IN IF idx \in visited
          THEN GetGroupLoop(g, stone_u8, rest, visited, group)
          ELSE LET visited2 == visited \cup {idx}
                   pushed == SelectSeq(GetNeighborsArray(c[1], c[2]),
                               LAMBDA n : Index(n[1], n[2]) \notin visited2
                                          /\ GetRaw(g, n[1], n[2]) = stone_u8)
               IN GetGroupLoop(g, stone_u8, rest \o pushed, visited2, Append(group, c))

GetGroup(g, x, y) ==
  IF GetRaw(g, x, y) = EMPTY THEN << >>
  ELSE GetGroupLoop(g, GetRaw(g, x, y), << <<x, y>> >>, {}, << >>)

HasNoLiberties(g, group) ==
  \A i \in 1..Len(group) :
    LET nb == GetNeighborsArray(group[i][1], group[i][2])
    IN \A j \in 1..Len(nb) : GetRaw(g, nb[j][1], nb[j][2]) # EMPTY

\* Mutant: removed stones stay in the hash.
RECURSIVE RemoveGroupKeepHash(_, _, _, _)
RemoveGroupKeepHash(g, h, group, i) ==
  IF i > Len(group) THEN [grid |-> g, hash |-> h]
  ELSE RemoveGroupKeepHash([g EXCEPT ![Index(group[i][1], group[i][2])] = EMPTY],
                           h, group, i + 1)

\* The removal loop of check_captures: empty each cell of the group and XOR
\* its key out of the hash.
RECURSIVE RemoveGroup(_, _, _, _)
RemoveGroup(g, h, group, i) ==
  IF i > Len(group) THEN [grid |-> g, hash |-> h]
  ELSE LET gx == group[i][1]
           gy == group[i][2]
           idx == Index(gx, gy)
           was_black == (g[idx] = BLACK)
       IN RemoveGroup([g EXCEPT ![idx] = EMPTY],
                      Xor(h, GetStoneHash(gx, gy, was_black)), group, i + 1)

\* Mutant: a captured group counts as one stone.
RECURSIVE CaptureLoopCountGroups(_, _, _, _, _, _)
CaptureLoopCountGroups(g, h, neighbors, i, opponent_u8, total_captured) ==
  IF i > Len(neighbors) THEN [grid |-> g, hash |-> h, total |-> total_captured]
  ELSE LET nx == neighbors[i][1]
           ny == neighbors[i][2]
           group == GetGroup(g, nx, ny)
       IN IF GetRaw(g, nx, ny) = opponent_u8 /\ HasNoLiberties(g, group)
          THEN LET r == RemoveGroup(g, h, group, 1)
               IN CaptureLoopCountGroups(r.grid, r.hash, neighbors, i + 1, opponent_u8,
                                         total_captured + 1)
          ELSE CaptureLoopCountGroups(g, h, neighbors, i + 1, opponent_u8, total_captured)

\* The loop of check_captures over the neighbours of the placed stone.
RECURSIVE CaptureLoop(_, _, _, _, _, _)
CaptureLoop(g, h, neighbors, i, opponent_u8, total_captured) ==
  IF i > Len(neighbors) THEN [grid |-> g, hash |-> h, total |-> total_captured]
  ELSE LET nx == neighbors[i][1]
           ny == neighbors[i][2]
       IN IF GetRaw(g, nx, ny) = opponent_u8
          THEN LET group == GetGroup(g, nx, ny)
               IN IF HasNoLiberties(g, group)
                  THEN LET r == RemoveGroup(g, h, group, 1)
                       IN CaptureLoop(r.grid, r.hash, neighbors, i + 1, opponent_u8,
                                      total_captured + Len(group))
                  ELSE CaptureLoop(g, h, neighbors, i + 1, opponent_u8, total_captured)
          ELSE CaptureLoop(g, h, neighbors, i + 1, opponent_u8, total_captured)

\* Mutant: a self-capture takes the placed stone only, not its group.
CheckCapturesSelfStoneOnly(g, h, x, y, stone) ==
  LET c == CaptureLoop(g, h, GetNeighborsArray(x, y), 1, OppositeU8(StoneToU8(stone)), 0)
  IN IF HasNoLiberties(c.grid, GetGroup(c.grid, x, y))
     THEN LET r == RemoveGroup(c.grid, c.hash, << <<x, y>> >>, 1)
          IN [grid |-> r.grid, hash |-> r.hash, total |-> c.total]
     ELSE c

\* Mutant: the stones of a self-capture are counted as captured.
CheckCapturesCountsSelf(g, h, x, y, stone) ==
  LET stone_u8 == StoneToU8(stone)
      opponent_u8 == OppositeU8(stone_u8)
      c == CaptureLoop(g, h, GetNeighborsArray(x, y), 1, opponent_u8, 0)
      self_group == GetGroup(c.grid, x, y)
  IN IF HasNoLiberties(c.grid, self_group)
     THEN LET r == RemoveGroup(c.grid, c.hash, self_group, 1)
          IN [grid |-> r.grid, hash |-> r.hash, total |-> c.total + Len(self_group)]
     ELSE c

\* Mutant: the placed stone's own group is never examined.
CheckCapturesNoSelf(g, h, x, y, stone) ==
  CaptureLoop(g, h, GetNeighborsArray(x, y), 1, OppositeU8(StoneToU8(stone)), 0)

\* Mutant: the placed stone's group is judged on the grid as it was before the
\* opposing groups were taken off, and removed after them.
CheckCapturesSelfJudgedBefore(g, h, x, y, stone) ==
  LET stone_u8 == StoneToU8(stone)
      opponent_u8 == OppositeU8(stone_u8)
      c == CaptureLoop(g, h, GetNeighborsArray(x, y), 1, opponent_u8, 0)
      self_group == GetGroup(g, x, y)
  IN IF HasNoLiberties(g, self_group)
     THEN LET r == RemoveGroup(c.grid, c.hash, self_group, 1)
          IN [grid |-> r.grid, hash |-> r.hash, total |-> c.total]
     ELSE c

\* check_captures: opposing neighbours first, then the placed stone's group.
CheckCaptures(g, h, x, y, stone) ==
  LET stone_u8 == StoneToU8(stone)
      opponent_u8 == OppositeU8(stone_u8)
      c == CaptureLoop(g, h, GetNeighborsArray(x, y), 1, opponent_u8, 0)
      self_group == GetGroup(c.grid, x, y)
  IN IF HasNoLiberties(c.grid, self_group)
     THEN LET r == RemoveGroup(c.grid, c.hash, self_group, 1)
          IN [grid |-> r.grid, hash |-> r.hash, total |-> c.total]
     ELSE c

\* Mutant: an occupied point is not refused.
PlaceStoneOverwrite(b, x, y, stone) ==
  IF x >= size \/ y >= size
  THEN [ok |-> FALSE, err |-> "Position out of bounds", board |-> b]
  ELSE LET g1 == [b.grid EXCEPT ![Index(x, y)] = StoneToU8(stone)]
           h1 == Xor(b.current_hash, GetStoneHash(x, y, stone = "Black"))
           c == CheckCaptures(g1, h1, x, y, stone)
       IN [ok |-> TRUE, err |-> "",
           board |-> [grid |-> c.grid,
                      captured |-> IF stone = "Black"
                                   THEN <<b.captured[1] + c.total, b.captured[2]>>
                                   ELSE <<b.captured[1], b.captured[2] + c.total>>,
                      current_hash |-> c.hash]]

\* Mutant: the stones taken are credited to the color that lost them.
PlaceStoneCreditsLoser(b, x, y, stone) ==
  IF x >= size \/ y >= size
  THEN [ok |-> FALSE, err |-> "Position out of bounds", board |-> b]
  ELSE IF GetRaw(b.grid, x, y) # EMPTY
  THEN [ok |-> FALSE, err |-> "Position already occupied", board |-> b]
  ELSE LET g1 == [b.grid EXCEPT ![Index(x, y)] = StoneToU8(stone)]
           h1 == Xor(b.current_hash, GetStoneHash(x, y, stone = "Black"))
           c == CheckCaptures(g1, h1, x, y, stone)
       IN [ok |-> TRUE, err |-> "",
           board |-> [grid |-> c.grid,
                      captured |-> IF stone = "White"
                                   THEN <<b.captured[1] + c.total, b.captured[2]>>
                                   ELSE <<b.captured[1], b.captured[2] + c.total>>,
                      current_hash |-> c.hash]]

\* place_stone: the Result and the board as the call leaves it.
PlaceStone(b, x, y, stone) ==
  IF x >= size \/ y >= size
  THEN [ok |-> FALSE, err |-> "Position out of bounds", board |-> b]
  ELSE IF GetRaw(b.grid, x, y) # EMPTY
  THEN [ok |-> FALSE, err |-> "Position already occupied", board |-> b]
  ELSE LET stone_u8 == StoneToU8(stone)
           idx == Index(x, y)
           g1 == [b.grid EXCEPT ![idx] = stone_u8]
           h1 == Xor(b.current_hash, GetStoneHash(x, y, stone = "Black"))
           c == CheckCaptures(g1, h1, x, y, stone)
       IN [ok |-> TRUE, err |-> "",
           board |-> [grid |-> c.grid,
                      captured |-> IF stone = "Black"
                                   THEN <<b.captured[1] + c.total, b.captured[2]>>
                                   ELSE <<b.captured[1], b.captured[2] + c.total>>,
                      current_hash |-> c.hash]]

\* has_liberty_except_recursive: depth-first search that shares one visited
\* marker array over the whole search; returns the answer and the markers.
RECURSIVE HasLibertyExceptRecursive(_, _, _, _, _, _, _)
RECURSIVE HasLibertyExceptLoop(_, _, _, _, _, _, _)
HasLibertyExceptRecursive(g, x, y, stone_u8, except_x, except_y, visited) ==
  LET idx == Index(x, y)
  IN IF idx \in visited
     THEN [ret |-> FALSE, visited |-> visited]
     ELSE HasLibertyExceptLoop(g, GetNeighborsArray(x, y), 1, stone_u8,
                               except_x, except_y, visited \cup {idx})

HasLibertyExceptLoop(g, neighbors, i, stone_u8, except_x, except_y, visited) ==
  IF i > Len(neighbors) THEN [ret |-> FALSE, visited |-> visited]
  ELSE LET n == neighbors[i]
           neighbor_stone == GetRaw(g, n[1], n[2])
       IN IF neighbor_stone = EMPTY
          THEN IF n # <<except_x, except_y>>
               THEN [ret |-> TRUE, visited |-> visited]
               ELSE HasLibertyExceptLoop(g, neighbors, i + 1, stone_u8,
                                         except_x, except_y, visited)
          ELSE IF neighbor_stone = stone_u8
          THEN LET r == HasLibertyExceptRecursive(g, n[1], n[2], stone_u8,
                                                  except_x, except_y, visited)
               IN IF r.ret
                  THEN [ret |-> TRUE, visited |-> r.visited]
                  ELSE HasLibertyExceptLoop(g, neighbors, i + 1, stone_u8,
                                            except_x, except_y, r.visited)
          ELSE HasLibertyExceptLoop(g, neighbors, i + 1, stone_u8,
                                    except_x, except_y, visited)

WouldCaptureAfterMove(g, group_x, group_y, block_x, block_y) ==
  LET stone_u8 == GetRaw(g, group_x, group_y)
  IN IF stone_u8 = EMPTY THEN FALSE
     ELSE ~HasLibertyExceptRecursive(g, group_x, group_y, stone_u8,
                                     block_x, block_y, {}).ret

GroupHasLibertyExcept(g, x, y, except_x, except_y) ==
  LET stone_u8 == GetRaw(g, x, y)
  IN IF stone_u8 = EMPTY THEN FALSE
     ELSE HasLibertyExceptRecursive(g, x, y, stone_u8, except_x, except_y, {}).ret

\* Mutant: the capture test is missing, so a capturing move with no liberty of
\* its own is refused.
IsValidMoveNoCapture(b, x, y, stone) ==
  IF x >= size \/ y >= size THEN FALSE
  ELSE IF GetRaw(b.grid, x, y) # EMPTY THEN FALSE
  ELSE LET neighbors == GetNeighborsArray(x, y)
           N == 1..Len(neighbors)
       IN \/ \E i \in N : GetRaw(b.grid, neighbors[i][1], neighbors[i][2]) = EMPTY
          \/ \E i \in N :
               /\ GetRaw(b.grid, neighbors[i][1], neighbors[i][2]) = StoneToU8(stone)
               /\ GroupHasLibertyExcept(b.grid, neighbors[i][1], neighbors[i][2], x, y)

\* is_valid_move: each of the three loops returns true at its first hit.
IsValidMove(b, x, y, stone) ==
  IF x >= size \/ y >= size THEN FALSE
  ELSE IF GetRaw(b.grid, x, y) # EMPTY THEN FALSE
  ELSE LET stone_u8 == StoneToU8(stone)
           opponent_u8 == OppositeU8(stone_u8)
           neighbors == GetNeighborsArray(x, y)
           N == 1..Len(neighbors)
       IN \/ \E i \in N :
               /\ GetRaw(b.grid, neighbors[i][1], neighbors[i][2]) = opponent_u8
               /\ WouldCaptureAfterMove(b.grid, neighbors[i][1], neighbors[i][2], x, y)
          \/ \E i \in N : GetRaw(b.grid, neighbors[i][1], neighbors[i][2]) = EMPTY
          \/ \E i \in N :
               /\ GetRaw(b.grid, neighbors[i][1], neighbors[i][2]) = stone_u8
               /\ GroupHasLibertyExcept(b.grid, neighbors[i][1], neighbors[i][2], x, y)

\* Board::get: the cell is read at its flat index; the read panics when the
\* index is past the end of the grid.
Get(b, x, y) ==
  IF Index(x, y) >= size * size THEN "panic"
  ELSE IF b.grid[Index(x, y)] = BLACK THEN "Some(Black)"
  ELSE IF b.grid[Index(x, y)] = WHITE THEN "Some(White)"
  ELSE "None"

\* Board::is_empty
IsEmpty(b) == \A i \in Cells : b.grid[i] = EMPTY

\* get_diagonal_neighbors: top-left, top-right, bottom-left, bottom-right,
\* those that exist.
GetDiagonalNeighbors(x, y) ==
  (IF x > 0 /\ y > 0 THEN << <<x - 1, y - 1>> >> ELSE << >>)
  \o (IF x < size - 1 /\ y > 0 THEN << <<x + 1, y - 1>> >> ELSE << >>)
  \o (IF x > 0 /\ y < size - 1 THEN << <<x - 1, y + 1>> >> ELSE << >>)
  \o (IF x < size - 1 /\ y < size - 1 THEN << <<x + 1, y + 1>> >> ELSE << >>)

\* Mutant: the diagonal neighbors are not looked at.
IsEyeNoDiagonals(b, x, y, stone) ==
  IF GetRaw(b.grid, x, y) # EMPTY THEN FALSE
  ELSE LET stone_u8 == StoneToU8(stone)
           neighbors == GetNeighborsArray(x, y)
       IN \A i \in 1..Len(neighbors) :
            GetRaw(b.grid, neighbors[i][1], neighbors[i][2]) = stone_u8

\* Board::is_eye
IsEye(b, x, y, stone) ==
  IF GetRaw(b.grid, x, y) # EMPTY THEN FALSE
  ELSE LET stone_u8 == StoneToU8(stone)
           neighbors == GetNeighborsArray(x, y)
           diagonal_positions == GetDiagonalNeighbors(x, y)
           diagonal_count == Len(diagonal_positions)
           D == 1..diagonal_count
           opponent_diagonal_count ==
             Cardinality({i \in D :
               LET diag_stone == GetRaw(b.grid, diagonal_positions[i][1],
                                        diagonal_positions[i][2])
               IN diag_stone # EMPTY /\ diag_stone # stone_u8})
       IN IF \E i \in 1..Len(neighbors) :
               GetRaw(b.grid, neighbors[i][1], neighbors[i][2]) # stone_u8
          THEN FALSE
          ELSE IF diagonal_count = 1
          THEN \A i \in D : GetRaw(b.grid, diagonal_positions[i][1],
                                   diagonal_positions[i][2]) = stone_u8
          ELSE IF diagonal_count = 2 THEN opponent_diagonal_count = 0
          ELSE IF diagonal_count = 4 THEN opponent_diagonal_count <= 1
          ELSE FALSE

\* Board::count_eyes_for_color
CountEyesForColor(b, stone) ==
  Cardinality({p \in (0..(size - 1)) \X (0..(size - 1)) : IsEye(b, p[1], p[2], stone)})

\* Board::count_stones and its loop
RECURSIVE CountStonesFrom(_, _, _, _)
CountStonesFrom(g, i, black_count, white_count) ==
  IF i >= size * size THEN <<black_count, white_count>>
  ELSE IF g[i] = BLACK THEN CountStonesFrom(g, i + 1, black_count + 1, white_count)
  ELSE IF g[i] = WHITE THEN CountStonesFrom(g, i + 1, black_count, white_count + 1)
  ELSE CountStonesFrom(g, i + 1, black_count, white_count)

CountStones(b) == CountStonesFrom(b.grid, 0, 0, 0)

\* ---- agents (src/src/ai) -----------------------------------------------------
\* An agent's get_move is modelled by the set of the values it can return:
\* one value for each outcome of its random draws and of its time budget.
NoneMove == [some |-> FALSE, x |-> 0, y |-> 0]

SomeMove(p) == [some |-> TRUE, x |-> p[1], y |-> p[2]]

\* rng.gen_range(0..moves.len()) and moves[index]
Choices(moves) == {SomeMove(moves[i]) : i \in 1..Len(moves)}

\* `for y in 0..size { for x in 0..size {` : the k-th point visited.
ScanPoint(k) == <<k % size, k \div size>>

\* program constants (ai/random.rs)
MIN_NON_EYE_MOVES == 10
MAX_SCAN_POSITIONS == 50

\* Mutant: the scan of RandomAI visits every point of the board.
RECURSIVE RandomScanWholeBoard(_, _, _, _, _, _)
RandomScanWholeBoard(b, stone, k, valid_moves, non_eye_moves, scanned) ==
  IF k >= size * size
  THEN [valid_moves |-> valid_moves, non_eye_moves |-> non_eye_moves]
  ELSE LET p == ScanPoint(k)
           valid == IsValidMove(b, p[1], p[2], stone)
           non_eye == valid /\ ~IsEye(b, p[1], p[2], stone)
           valid2 == IF valid THEN Append(valid_moves, p) ELSE valid_moves
           non_eye2 == IF non_eye THEN Append(non_eye_moves, p) ELSE non_eye_moves
       IN RandomScanWholeBoard(b, stone, k + 1, valid2, non_eye2, scanned + 1)

\* The scan loop of RandomAI::get_move with its two early exits.
RECURSIVE RandomScan(_, _, _, _, _, _)
RandomScan(b, stone, k, valid_moves, non_eye_moves, scanned) ==
  IF k >= size * size
  THEN [valid_moves |-> valid_moves, non_eye_moves |-> non_eye_moves]
  ELSE LET p == ScanPoint(k)
           valid == IsValidMove(b, p[1], p[2], stone)
           non_eye == valid /\ ~IsEye(b, p[1], p[2], stone)
           valid2 == IF valid THEN Append(valid_moves, p) ELSE valid_moves
           non_eye2 == IF non_eye THEN Append(non_eye_moves, p) ELSE non_eye_moves
       IN IF non_eye /\ Len(non_eye2) >= MIN_NON_EYE_MOVES
          THEN [valid_moves |-> valid2, non_eye_moves |-> non_eye2]
          ELSE IF scanned + 1 >= MAX_SCAN_POSITIONS /\ non_eye2 # << >>
          THEN [valid_moves |-> valid2, non_eye_moves |-> non_eye2]
          ELSE RandomScan(b, stone, k + 1, valid2, non_eye2, scanned + 1)

\* Mutant: RandomAI may fill an eye whatever the number of eyes.
RandomAIGetMoveFillsEyes(b, stone) ==
  LET scan == RandomScan(b, stone, 0, << >>, << >>, 0)
  IN IF scan.valid_moves = << >> THEN {NoneMove}
     ELSE Choices(scan.valid_moves)

\* Mutant: with more than 2 eyes RandomAI may fill an eye whatever the number
\* of non-eye moves it gathered.
RandomAIGetMoveNoThreshold(b, stone) ==
  LET scan == RandomScan(b, stone, 0, << >>, << >>, 0)
      valid_moves == scan.valid_moves
      non_eye_moves == scan.non_eye_moves
  IN IF valid_moves = << >> THEN {NoneMove}
     ELSE IF CountEyesForColor(b, stone) > 2
     THEN Choices(non_eye_moves) \cup Choices(valid_moves)
     ELSE IF non_eye_moves # << >> THEN Choices(non_eye_moves)
     ELSE {NoneMove}

\* RandomAI::get_move
RandomAIGetMove(b, stone) ==
  LET scan == RandomScan(b, stone, 0, << >>, << >>, 0)
      valid_moves == scan.valid_moves
      non_eye_moves == scan.non_eye_moves
  IN IF valid_moves = << >> THEN {NoneMove}
     ELSE IF non_eye_moves # << >>
     THEN IF Len(non_eye_moves) < 3
          THEN IF CountEyesForColor(b, stone) > 2
               THEN Choices(non_eye_moves) \cup Choices(valid_moves)
               ELSE Choices(non_eye_moves)
          ELSE Choices(non_eye_moves)
     ELSE IF CountEyesForColor(b, stone) > 2
     THEN Choices(valid_moves)
     ELSE {NoneMove}

\* The scan loops of the other agents: every point, row by row.
RECURSIVE CollectMoves(_, _, _, _, _)
CollectMoves(b, stone, k, valid_moves, non_eye_moves) ==
  IF k >= size * size
  THEN [valid_moves |-> valid_moves, non_eye_moves |-> non_eye_moves]
  ELSE LET p == ScanPoint(k)
           valid == IsValidMove(b, p[1], p[2], stone)
           non_eye == valid /\ ~IsEye(b, p[1], p[2], stone)
       IN CollectMoves(b, stone, k + 1,
                       IF valid THEN Append(valid_moves, p) ELSE valid_moves,
                       IF non_eye THEN Append(non_eye_moves, p) ELSE non_eye_moves)

\* ---- MinimaxAI (src/src/ai/minimax.rs) ----------------------------------------
I32_MIN == -2147483647 - 1
I32_MAX == 2147483647

Max(a, b) == IF a >= b THEN a ELSE b

Min(a, b) == IF a <= b THEN a ELSE b

\* Mutant: the material is taken from Black's side for either color.
EvaluateBoardBlackMaterial(b, stone) ==
  LET stones == CountStones(b)
      captured == GetCaptured(b)
      material_diff == (stones[1] + captured[1]) - (stones[2] + captured[2])
      our_eyes == CountEyesForColor(b, stone)
      their_eyes == CountEyesForColor(b, Opposite(stone))
      eye_bonus == (Min(our_eyes, 2) - Min(their_eyes, 2)) * 20
  IN material_diff * 100 + eye_bonus

\* MinimaxAI::evaluate_board
EvaluateBoard(b, stone) ==
  LET stones == CountStones(b)
      captured == GetCaptured(b)
      black_score == stones[1] + captured[1]
      white_score == stones[2] + captured[2]
      material_diff == black_score - white_score
      our_eyes == CountEyesForColor(b, stone)
      their_eyes == CountEyesForColor(b, Opposite(stone))
      eye_bonus == (Min(our_eyes, 2) - Min(their_eyes, 2)) * 20
      base_score == IF stone = "Black" THEN material_diff ELSE -material_diff
  IN base_score * 100 + eye_bonus

\* `for y in 0..size { for x in 0..size { if board.is_valid_move(x, y, stone)`
RECURSIVE ValidMoves(_, _, _, _)
ValidMoves(b, stone, k, valid_moves) ==
  IF k >= size * size THEN valid_moves
  ELSE LET p == ScanPoint(k)
       IN ValidMoves(b, stone, k + 1,
                     IF IsValidMove(b, p[1], p[2], stone)
                     THEN Append(valid_moves, p) ELSE valid_moves)

\* MinimaxAI::minimax and its two loops.  A call returns its value and the
\* number of evaluate_board calls it made (the increments of eval_count).
\* A local of the code (`let valid_moves = ...`, the board after place_stone,
\* `let eval = self.minimax(...)`) is bound once by `x \in {value}`.
RECURSIVE Minimax(_, _, _, _, _, _, _)
RECURSIVE MinimaxMaxLoop(_, _, _, _, _, _, _, _, _, _)
RECURSIVE MinimaxMinLoop(_, _, _, _, _, _, _, _, _, _)

\* Mutant: the minimizing loop tests its cut the wrong way round
\* (alpha <= beta), and so stops after the first move it searched.
RECURSIVE MinimaxMinLoopCutReversed(_, _, _, _, _, _, _, _, _, _)
MinimaxMinLoopCutReversed(b, valid_moves, i, depth, alpha, beta, stone, original_stone, min_eval, count) ==
  IF i > Len(valid_moves) THEN [eval |-> min_eval, count |-> count]
  ELSE CHOOSE res \in
    {IF ~placed.ok
     THEN MinimaxMinLoopCutReversed(b, valid_moves, i + 1, depth, alpha, beta, stone,
                         original_stone, min_eval, count)
     ELSE CHOOSE res2 \in
       {IF alpha <= Min(beta, r.eval)
        THEN [eval |-> Min(min_eval, r.eval), count |-> count + r.count]
        ELSE MinimaxMinLoopCutReversed(b, valid_moves, i + 1, depth, alpha,
                            Min(beta, r.eval), stone, original_stone,
                            Min(min_eval, r.eval), count + r.count)
        : r \in {Minimax(placed.board, depth - 1, TRUE, alpha, beta,
                         Opposite(stone), original_stone)}} : TRUE
     : placed \in {PlaceStone(b, valid_moves[i][1], valid_moves[i][2], stone)}}
    : TRUE

\* `if is_maximizing { ... for (x, y) in valid_moves { ... } max_eval }`
MinimaxMaxLoop(b, valid_moves, i, depth, alpha, beta, stone, original_stone, max_eval, count) ==
  IF i > Len(valid_moves) THEN [eval |-> max_eval, count |-> count]
  ELSE CHOOSE res \in
    {IF ~placed.ok
     THEN MinimaxMaxLoop(b, valid_moves, i + 1, depth, alpha, beta, stone,
                         original_stone, max_eval, count)
     ELSE CHOOSE res2 \in
       {IF beta <= Max(alpha, r.eval)
        THEN [eval |-> Max(max_eval, r.eval), count |-> count + r.count]
        ELSE MinimaxMaxLoop(b, valid_moves, i + 1, depth, Max(alpha, r.eval),
                            beta, stone, original_stone,
                            Max(max_eval, r.eval), count + r.count)
        : r \in {Minimax(placed.board, depth - 1, FALSE, alpha, beta,
                         Opposite(stone), original_stone)}} : TRUE
     : placed \in {PlaceStone(b, valid_moves[i][1], valid_moves[i][2], stone)}}
    : TRUE

\* `else { ... for (x, y) in valid_moves { ... } min_eval }`
MinimaxMinLoop(b, valid_moves, i, depth, alpha, beta, stone, original_stone, min_eval, count) ==
  IF i > Len(valid_moves) THEN [eval |-> min_eval, count |-> count]
  ELSE CHOOSE res \in
    {IF ~placed.ok
     THEN MinimaxMinLoop(b, valid_moves, i + 1, depth, alpha, beta, stone,
                         original_stone, min_eval, count)
     ELSE CHOOSE res2 \in
       {IF Min(beta, r.eval) <= alpha
        THEN [eval |-> Min(min_eval, r.eval), count |-> count + r.count]
        ELSE MinimaxMinLoop(b, valid_moves, i + 1, depth, alpha,
                            Min(beta, r.eval), stone, original_stone,
                            Min(min_eval, r.eval), count + r.count)
        : r \in {Minimax(placed.board, depth - 1, TRUE, alpha, beta,
                         Opposite(stone), original_stone)}} : TRUE
     : placed \in {PlaceStone(b, valid_moves[i][1], valid_moves[i][2], stone)}}
    : TRUE

Minimax(b, depth, is_maximizing, alpha, beta, stone, original_stone) ==
  IF depth = 0
  THEN [eval |-> EvaluateBoard(b, original_stone), count |-> 1]
  ELSE CHOOSE res \in
    {IF valid_moves = << >>
     THEN [eval |-> EvaluateBoard(b, original_stone), count |-> 1]
     ELSE IF is_maximizing
     THEN MinimaxMaxLoop(b, valid_moves, 1, depth, alpha, beta, stone,
                         original_stone, I32_MIN, 0)
     ELSE MinimaxMinLoop(b, valid_moves, 1, depth, alpha, beta, stone,
                         original_stone, I32_MAX, 0)
     : valid_moves \in {ValidMoves(b, stone, 0, << >>)}} : TRUE

\* Mutant: the loop of get_move keeps the last of the best scored moves
\* (score >= best_score).
RECURSIVE GetMoveLoopKeepsLast(_, _, _, _, _, _, _, _)
GetMoveLoopKeepsLast(b, stone, max_depth, valid_moves, i, best_move, best_score, count) ==
  IF i > Len(valid_moves) THEN [move |-> best_move, eval_count |-> count]
  ELSE CHOOSE res \in
    {IF ~placed.ok
     THEN GetMoveLoopKeepsLast(b, stone, max_depth, valid_moves, i + 1, best_move,
                      best_score, count)
     ELSE CHOOSE res2 \in
       {IF r.eval >= best_score
        THEN GetMoveLoopKeepsLast(b, stone, max_depth, valid_moves, i + 1,
                         SomeMove(valid_moves[i]), r.eval, count + r.count)
        ELSE GetMoveLoopKeepsLast(b, stone, max_depth, valid_moves, i + 1,
                         best_move, best_score, count + r.count)
        : r \in {IF max_depth = 1
                 THEN [eval |-> EvaluateBoard(placed.board, stone), count |-> 1]
                 ELSE Minimax(placed.board, max_depth - 1, FALSE,
                              I32_MIN, I32_MAX, Opposite(stone), stone)}} : TRUE
     : placed \in {PlaceStone(b, valid_moves[i][1], valid_moves[i][2], stone)}}
    : TRUE

\* The `for (x, y) in valid_moves` loop of MinimaxAI::get_move.
RECURSIVE GetMoveLoop(_, _, _, _, _, _, _, _)
GetMoveLoop(b, stone, max_depth, valid_moves, i, best_move, best_score, count) ==
  IF i > Len(valid_moves) THEN [move |-> best_move, eval_count |-> count]
  ELSE CHOOSE res \in
    {IF ~placed.ok
     THEN GetMoveLoop(b, stone, max_depth, valid_moves, i + 1, best_move,
                      best_score, count)
     ELSE CHOOSE res2 \in
       {IF r.eval > best_score
        THEN GetMoveLoop(b, stone, max_depth, valid_moves, i + 1,
                         SomeMove(valid_moves[i]), r.eval, count + r.count)
        ELSE GetMoveLoop(b, stone, max_depth, valid_moves, i + 1,
                         best_move, best_score, count + r.count)
        : r \in {IF max_depth = 1
                 THEN [eval |-> EvaluateBoard(placed.board, stone), count |-> 1]
                 ELSE Minimax(placed.board, max_depth - 1, FALSE,
                              I32_MIN, I32_MAX, Opposite(stone), stone)}} : TRUE
     : placed \in {PlaceStone(b, valid_moves[i][1], valid_moves[i][2], stone)}}
    : TRUE

\* MinimaxAI::get_move of an agent built by MinimaxAI::new(max_depth), with
\* max_depth >= 1: the move returned and the evaluate_board calls made.
MinimaxAIGetMove(b, stone, max_depth) ==
  CHOOSE res \in
    {IF valid_moves = << >> THEN [move |-> NoneMove, eval_count |-> 0]
     ELSE GetMoveLoop(b, stone, max_depth, valid_moves, 1, NoneMove, I32_MIN, 0)
     : valid_moves \in {ValidMoves(b, stone, 0, << >>)}} : TRUE

\* Mutant: MonteCarloAI indexes its candidates without looking at their number,
\* and answers the first point of the board when there is none.
MonteCarloAIGetMoveNoCheck(b, stone) ==
  LET moves == CollectMoves(b, stone, 0, << >>, << >>)
      total_eyes == CountEyesForColor(b, stone)
      candidates == IF total_eyes <= 2 /\ moves.non_eye_moves # << >>
                    THEN moves.non_eye_moves
                    ELSE moves.valid_moves
  IN IF candidates = << >> THEN {SomeMove(<<0, 0>>)}
     ELSE Choices(candidates)

\* The candidates of MonteCarloAI::get_move (valid_moves after the eye rule),
\* or none when it returns None before simulating.
MonteCarloCandidates(b, stone) ==
  LET moves == CollectMoves(b, stone, 0, << >>, << >>)
      total_eyes == CountEyesForColor(b, stone)
  IN IF total_eyes <= 2 /\ moves.non_eye_moves # << >>
     THEN [none |-> FALSE, valid_moves |-> moves.non_eye_moves]
     ELSE IF total_eyes <= 2 /\ moves.non_eye_moves = << >>
     THEN [none |-> TRUE, valid_moves |-> << >>]
     ELSE IF moves.valid_moves = << >>
     THEN [none |-> TRUE, valid_moves |-> << >>]
     ELSE [none |-> FALSE, valid_moves |-> moves.valid_moves]

\* The results of simulate_game: 1 for 1.0 (the color scored more at the end
\* of the random game) and 0 for 0.0.  The random game itself is the subject
\* of the rollouts below; here either result may come.
SimulateGameResults == {0, 1}

\* Mutant: the selection keeps the last of the candidates with the best win
\* rate (win_rate >= best_win_rate).
RECURSIVE SelectBestKeepsLast(_, _, _, _, _, _)
SelectBestKeepsLast(move_wins, move_games, idx, best_idx, best_wins, best_games) ==
  IF idx > Len(move_games) THEN best_idx
  ELSE IF move_games[idx] > 0
          /\ move_wins[idx] * best_games >= best_wins * move_games[idx]
  THEN SelectBestKeepsLast(move_wins, move_games, idx + 1, idx,
                           move_wins[idx], move_games[idx])
  ELSE SelectBestKeepsLast(move_wins, move_games, idx + 1, best_idx,
                           best_wins, best_games)

\* `for idx in 0..valid_moves.len()` of MonteCarloAI::get_move, indices from
\* 1.  best_win_rate is kept as the fraction best_wins / best_games (0.0 is
\* 0 / 1), and win_rate > best_win_rate is compared crosswise.
RECURSIVE SelectBest(_, _, _, _, _, _)
SelectBest(move_wins, move_games, idx, best_idx, best_wins, best_games) ==
  IF idx > Len(move_games) THEN best_idx
  ELSE IF move_games[idx] > 0
          /\ move_wins[idx] * best_games > best_wins * move_games[idx]
  THEN SelectBest(move_wins, move_games, idx + 1, idx, move_wins[idx],
                  move_games[idx])
  ELSE SelectBest(move_wins, move_games, idx + 1, best_idx, best_wins,
                  best_games)

\* MonteCarloAI::get_move as one call: over the results of the simulations
\* and the time they take, any of the candidates may be the one SelectBest
\* picks.
MonteCarloAIGetMove(b, stone) ==
  LET c == MonteCarloCandidates(b, stone)
  IN IF c.none THEN {NoneMove} ELSE Choices(c.valid_moves)

\* Mutant: get_valid_moves of mcts.rs collects the empty points without asking
\* is_valid_move.
GetValidMovesEveryEmptyPoint(b, stone) ==
  SelectSeq([k \in 1..(size * size) |-> ScanPoint(k - 1)],
            LAMBDA p : GetRaw(b.grid, p[1], p[2]) = EMPTY)

\* get_valid_moves of mcts.rs
GetValidMoves(b, stone) ==
  LET moves == CollectMoves(b, stone, 0, << >>, << >>)
      total_eyes == CountEyesForColor(b, stone)
  IN IF total_eyes <= 2 /\ moves.non_eye_moves # << >>
     THEN moves.non_eye_moves
     ELSE moves.valid_moves

\* Mcts::run_mcts as one call: over the random draws and the time the
\* iterations take, any root move may be the most visited child, and there is
\* no child at all when the time budget allows no iteration.
RunMcts(b, stone) ==
  LET valid_moves == GetValidMoves(b, stone)
  IN IF valid_moves = << >> THEN {NoneMove}
     ELSE IF Len(valid_moves) = 1 THEN {SomeMove(valid_moves[1])}
     ELSE Choices(valid_moves) \cup {NoneMove}

\* ---- the tree of Mcts (src/src/ai/mcts.rs) -----------------------------------
\* MctsNode::new
MctsNodeNew(player_to_move, move_pos, available_moves) ==
  [visits |-> 0, black_wins |-> 0, move_pos |-> move_pos,
   player_to_move |-> player_to_move, children |-> << >>,
   untried_moves |-> available_moves]

\* Mcts.exploration * sqrt(ln(parent_visits) / visits) with exploration = 1.4,
\* in millionths rounded down: ExplorationTerm[parent_visits][visits].
ExplorationTerm ==
  << <<0, 0, 0, 0, 0, 0, 0>>,
     <<1165576, 824187, 672945, 582788, 521261, 475844, 440546>>,
     <<1467405, 1037612, 847207, 733702, 656243, 599065, 554627>>,
     <<1648374, 1165576, 951689, 824187, 737175, 672945, 623026>>,
     <<1776090, 1255885, 1025426, 888045, 794291, 725086, 671299>>,
     <<1873992, 1325112, 1081950, 936996, 838075, 765054, 708302>>,
     <<1952942, 1380938, 1127531, 976471, 873382, 797285, 738142>> >>

\* f64::INFINITY, above every finite value of uct_value
UCT_INFINITY == 1000000000

\* The win rate uct_value ranks a node by, as a fraction of node.visits: its
\* numerator.
WinRateNumerator(node, parent_player) ==
  IF parent_player = "Black" THEN node.black_wins
  ELSE node.visits - node.black_wins

\* Mutant: the win rate is that of Black for either parent.
UctValueBlackOnly(node, parent_visits, parent_player) ==
  IF node.visits = 0 THEN UCT_INFINITY
  ELSE (node.black_wins * 1000000) \div node.visits
       + ExplorationTerm[parent_visits][node.visits]

\* MctsNode::uct_value, in millionths
UctValue(node, parent_visits, parent_player) ==
  IF node.visits = 0 THEN UCT_INFINITY
  ELSE LET win_rate ==
             IF parent_player = "Black"
             THEN (node.black_wins * 1000000) \div node.visits
             ELSE 1000000 - (node.black_wins * 1000000) \div node.visits
       IN win_rate + ExplorationTerm[parent_visits][node.visits]

\* Iterator::max_by over the children of a node by uct_value: the last of the
\* children with the greatest value.
RECURSIVE MaxByUct(_, _, _, _)
MaxByUct(nodes, parent, i, best) ==
  IF i > Len(nodes[parent].children) THEN best
  ELSE LET child == nodes[parent].children[i]
       IN IF UctValue(nodes[child], nodes[parent].visits,
                      nodes[parent].player_to_move)
               >= UctValue(nodes[best], nodes[parent].visits,
                           nodes[parent].player_to_move)
          THEN MaxByUct(nodes, parent, i + 1, child)
          ELSE MaxByUct(nodes, parent, i + 1, best)

\* MctsNode::select_child of a node with children
SelectChild(nodes, parent) ==
  MaxByUct(nodes, parent, 2, nodes[parent].children[1])

\* The selection phase of an iteration: down from current_node until a node
\* with an untried move or without children.  fault is the panic of
\* place_stone(..).unwrap().
RECURSIVE Selection(_, _, _, _, _)
Selection(nodes, current_node, current_board, current_player, path) ==
  IF nodes[current_node].untried_moves # << >>
     \/ nodes[current_node].children = << >>
  THEN [fault |-> FALSE, node |-> current_node, board |-> current_board,
        player |-> current_player, path |-> path]
  ELSE LET child == SelectChild(nodes, current_node)
           child_move == nodes[child].move_pos
           placed == PlaceStone(current_board, child_move.x, child_move.y,
                                current_player)
       IN IF ~placed.ok
          THEN [fault |-> TRUE, node |-> current_node, board |-> current_board,
                player |-> current_player, path |-> path]
          ELSE Selection(nodes, child, placed.board, Opposite(current_player),
                         Append(path, child))

\* Vec::remove(idx), indices from 1
RemoveAt(seq, idx) ==
  [i \in 1..(Len(seq) - 1) |-> IF i < idx THEN seq[i] ELSE seq[i + 1]]

\* Mutant: expand leaves the chosen move in untried_moves.
ExpandKeepsMove(nodes, node, current_board, current_player, idx) ==
  IF nodes[node].untried_moves = << >>
  THEN [nodes |-> nodes, child |-> 0, board |-> current_board,
        player |-> current_player]
  ELSE LET chosen_move == nodes[node].untried_moves[idx]
           placed == PlaceStone(current_board, chosen_move[1], chosen_move[2],
                                current_player)
           child_stone == Opposite(current_player)
           child_moves == GetValidMoves(placed.board, child_stone)
           child == Len(nodes) + 1
       IN IF placed.ok
          THEN [nodes |-> Append([nodes EXCEPT ![node].children = Append(@, child)],
                                 MctsNodeNew(child_stone, SomeMove(chosen_move),
                                             child_moves)),
                child |-> child, board |-> placed.board, player |-> child_stone]
          ELSE [nodes |-> nodes, child |-> 0, board |-> current_board,
                player |-> current_player]

\* Mutant: expand computes the child's candidate moves on a board where the
\* chosen move was placed for the other color.
ExpandPlacesOtherColor(nodes, node, current_board, current_player, idx) ==
  IF nodes[node].untried_moves = << >>
  THEN [nodes |-> nodes, child |-> 0, board |-> current_board,
        player |-> current_player]
  ELSE LET chosen_move == nodes[node].untried_moves[idx]
           removed == [nodes EXCEPT ![node].untried_moves = RemoveAt(@, idx)]
           placed == PlaceStone(current_board, chosen_move[1], chosen_move[2],
                                current_player)
           child_stone == Opposite(current_player)
           child_board == PlaceStone(current_board, chosen_move[1],
                                     chosen_move[2], child_stone).board
           child_moves == GetValidMoves(child_board, child_stone)
           child == Len(nodes) + 1
       IN IF placed.ok
          THEN [nodes |-> Append([removed EXCEPT ![node].children = Append(@, child)],
                                 MctsNodeNew(child_stone, SomeMove(chosen_move),
                                             child_moves)),
                child |-> child, board |-> placed.board, player |-> child_stone]
          ELSE [nodes |-> removed, child |-> 0, board |-> current_board,
                player |-> current_player]

\* The expansion phase: MctsNode::expand on the node selection stopped at,
\* with idx the random index drawn, and the place_stone on current_board that
\* follows it in run_mcts.  child is the new node, 0 when expand returns None.
Expand(nodes, node, current_board, current_player, idx) ==
  IF nodes[node].untried_moves = << >>
  THEN [nodes |-> nodes, child |-> 0, board |-> current_board,
        player |-> current_player]
  ELSE LET chosen_move == nodes[node].untried_moves[idx]
           removed == [nodes EXCEPT ![node].untried_moves = RemoveAt(@, idx)]
           placed == PlaceStone(current_board, chosen_move[1], chosen_move[2],
                                current_player)
           child_stone == Opposite(current_player)
           child_moves == GetValidMoves(placed.board, child_stone)
           child == Len(nodes) + 1
       IN IF placed.ok
          THEN [nodes |-> Append([removed EXCEPT ![node].children = Append(@, child)],
                                 MctsNodeNew(child_stone, SomeMove(chosen_move),
                                             child_moves)),
                child |-> child, board |-> placed.board, player |-> child_stone]
          ELSE [nodes |-> removed, child |-> 0, board |-> current_board,
                player |-> current_player]

\* The results of Mcts::simulate, doubled: 2 for 1.0, 1 for 0.5 (a close
\* game) and 0 for 0.0, for the color the simulation is run for.  The random
\* game itself is the subject of the rollouts below; here any result may
\* come.
SimulateResults == {0, 1, 2}

\* `let black_won = match current_player { ... }`
BlackWon(current_player, simulation_result) ==
  IF current_player = "Black" THEN simulation_result > 1
  ELSE simulation_result < 1

\* Mutant: update leaves the root out.
UpdatePathSkipsRoot(nodes, path, black_won) ==
  [i \in 1..Len(nodes) |->
     IF i # 1 /\ \E k \in 1..Len(path) : path[k] = i
     THEN [nodes[i] EXCEPT !.visits = @ + 1,
                           !.black_wins = IF black_won THEN @ + 1 ELSE @]
     ELSE nodes[i]]

\* MctsNode::update on every node of the path
UpdatePath(nodes, path, black_won) ==
  [i \in 1..Len(nodes) |->
     IF \E k \in 1..Len(path) : path[k] = i
     THEN [nodes[i] EXCEPT !.visits = @ + 1,
                           !.black_wins = IF black_won THEN @ + 1 ELSE @]
     ELSE nodes[i]]

\* Mutant: the child returned is the one with the best win rate for the
\* color, the first of them.
RECURSIVE BestChildByWinRate(_, _, _)
BestChildByWinRate(nodes, i, best) ==
  IF i > Len(nodes[1].children) THEN best
  ELSE LET child == nodes[1].children[i]
       IN IF WinRateNumerator(nodes[child], nodes[1].player_to_move)
                 * nodes[best].visits
               > WinRateNumerator(nodes[best], nodes[1].player_to_move)
                   * nodes[child].visits
          THEN BestChildByWinRate(nodes, i + 1, child)
          ELSE BestChildByWinRate(nodes, i + 1, best)

\* Iterator::max_by_key over the children of the root by visits: the last of
\* the children with the most visits.
RECURSIVE BestChild(_, _, _)
BestChild(nodes, i, best) ==
  IF i > Len(nodes[1].children) THEN best
  ELSE LET child == nodes[1].children[i]
       IN IF nodes[child].visits >= nodes[best].visits
          THEN BestChild(nodes, i + 1, child)
          ELSE BestChild(nodes, i + 1, best)

\* ---- state ----------------------------------------------------------------
VARIABLES
  board,               \* Game.board / the Board under test
  current_turn,        \* Game.current_turn
  consecutive_passes,  \* Game.consecutive_passes
  previous_board,      \* Game.previous_board
  board_history,       \* Game.board_history (1-based here, 0-based in Rust)
  pc,                  \* position of Game::play: in its loop or after it
  last,                \* history variable: the last call made, with what it
                       \* returned or what Game::play printed for it
  ko_watch,            \* history variable: the Ko rejection being followed
  turns_parity,        \* history variable: committed moves plus passes so
                       \* far, modulo 2
  outcome,             \* what Game::end_game printed, NoOutcome before it runs
  minimax_ai,          \* the MinimaxAI asked last: its max_depth and eval_count
  mc,                  \* the locals of MonteCarloAI::get_move while it runs
  mcts,                \* the locals of Mcts::run_mcts while it runs: the tree
                       \* under root, and history fields beside it
  rollout              \* the locals of the random game being played out by
                       \* MonteCarloAI::simulate_game or Mcts::simulate

\* the state of the agents
agentVars == <<minimax_ai, mc, mcts, rollout>>

vars == <<board, size, current_turn, consecutive_passes, previous_board,
          board_history, pc, last, ko_watch, turns_parity, outcome, agentVars>>

gameVars == <<size, current_turn, consecutive_passes, previous_board,
              board_history, pc, ko_watch, turns_parity, outcome>>

\* The coordinates the callers pass: cells up to MaxCell and two coordinates
\* one past the edge.
Inputs ==
  {<<x, y>> \in (0..(size - 1)) \X (0..(size - 1)) : Index(x, y) <= MaxCell}
  \cup {<<size, 0>>, <<0, size>>}

NoWatch == [stage |-> 0, x |-> 0, y |-> 0, who |-> "Black"]

NoOutcome == [none |-> TRUE]

\* MinimaxAI::new(1): no evaluation made yet.
MinimaxAINew(max_depth) == [max_depth |-> max_depth, eval_count |-> 0]

\* MonteCarloAI::get_move not called.
McIdle == [pc |-> "idle", stone |-> "Black", valid_moves |-> << >>,
           move_wins |-> << >>, move_games |-> << >>, idx |-> 0]

\* Mcts::run_mcts not called.  nodes is the tree, a node named by its index
\* and the root by 1; notes holds, for each node, history that the code does
\* not keep: its parent, the moves it was created with, and how the
\* simulations that went through it ended.
MctsIdle == [pc |-> "idle", stone |-> "Black", nodes |-> << >>,
             notes |-> << >>, iterations |-> 0, path |-> << >>]

\* The agents as they are built, before any call.
\* No random game is being played out.
RolloutIdle ==
  [pc |-> "idle", agent |-> "", stone |-> "Black", sim_board |-> BoardNew,
   current_turn |-> "Black", consecutive_passes |-> 0, moves |-> 0,
   turns |-> 0, result |-> 0]

AgentsNew ==
  /\ minimax_ai = MinimaxAINew(1)
  /\ mc = McIdle
  /\ mcts = MctsIdle
  /\ rollout = RolloutIdle

\* Mutant: White is the first to move.
InitWhiteFirst ==
  /\ size = Size
  /\ board = BoardNew
  /\ current_turn = "White"
  /\ consecutive_passes = 0
  /\ previous_board = NoBoard
  /\ board_history = <<GetHash(BoardNew)>>
  /\ pc = "InProgress"
  /\ last = [op |-> "new", x |-> 0, y |-> 0, stone |-> "Black", ret |-> "", before |-> NoBoard]
  /\ ko_watch = NoWatch
  /\ turns_parity = 0
  /\ outcome = NoOutcome
  /\ AgentsNew

\* Game::new
Init ==
  /\ size = Size
  /\ board = BoardNew
  /\ current_turn = "Black"
  /\ consecutive_passes = 0
  /\ previous_board = NoBoard
  /\ board_history = <<GetHash(BoardNew)>>
  /\ pc = "InProgress"
  /\ last = [op |-> "new", x |-> 0, y |-> 0, stone |-> "Black", ret |-> "", before |-> NoBoard]
  /\ ko_watch = NoWatch
  /\ turns_parity = 0
  /\ outcome = NoOutcome
  /\ AgentsNew

\* ---- Board driven directly (as the unit tests drive it) -------------------
CallPlaceStone(x, y, stone) ==
  /\ board.captured[1] + board.captured[2] < MaxCaptured
  /\ LET r == PlaceStone(board, x, y, stone)
     IN /\ board' = r.board
        /\ last' = [op |-> "place_stone", x |-> x, y |-> y, stone |-> stone,
                    ret |-> IF r.ok THEN "Ok" ELSE r.err, before |-> board]
  /\ UNCHANGED <<gameVars, agentVars>>

CallIsValidMove(x, y, stone) ==
  /\ board.captured[1] + board.captured[2] < MaxCaptured
  /\ last' = [op |-> "is_valid_move", x |-> x, y |-> y, stone |-> stone,
              ret |-> IF IsValidMove(board, x, y, stone) THEN "true" ELSE "false",
              before |-> board]
  /\ UNCHANGED <<board, gameVars, agentVars>>

BoardNext ==
  \/ \E p \in Inputs, stone \in Stone : CallPlaceStone(p[1], p[2], stone)
  \/ \E p \in Inputs, stone \in Stone : CallIsValidMove(p[1], p[2], stone)

BoardSpec == Init /\ [][BoardNext]_vars

\* ---- positions probed by single calls ---------------------------------------
\* A position is set up as the unit tests set theirs up: a run of place_stone
\* calls on a new board, here one call per stone of a target picture, in the
\* order of the flat index.
RECURSIVE PlaceAll(_, _, _)
PlaceAll(b, target, i) ==
  IF i >= size * size THEN b
  ELSE IF target[i] = EMPTY THEN PlaceAll(b, target, i + 1)
  ELSE PlaceAll(PlaceStone(b, i % size, i \div size,
                           IF target[i] = BLACK THEN "Black" ELSE "White").board,
                target, i + 1)

\* The cells after MaxCell of a target picture: all empty, all black, or black
\* with a hole at every cell of an odd column and an even row.
Rest(kind, i) ==
  IF kind = "empty" THEN EMPTY
  ELSE IF kind = "black" THEN BLACK
  ELSE IF (i % size) % 2 = 1 /\ (i \div size) % 2 = 0 THEN EMPTY ELSE BLACK

\* The target pictures: any content on the cells up to MaxCell, and one of the
\* given fillings after them.
Targets(kinds) ==
  {[i \in Cells |-> IF i <= MaxCell THEN w[i] ELSE Rest(kind, i)] :
     w \in [0..MaxCell -> {EMPTY, BLACK, WHITE}], kind \in kinds}

\* Board::new(n) for every n from 1 to Size + 1.
PositionInit ==
  /\ size \in 1..(Size + 1)
  /\ board = BoardNew
  /\ current_turn = "Black"
  /\ consecutive_passes = 0
  /\ previous_board = NoBoard
  /\ board_history = <<GetHash(BoardNew)>>
  /\ pc = "InProgress"
  /\ last = [op |-> "new", x |-> 0, y |-> 0, stone |-> "Black", ret |-> "", before |-> NoBoard]
  /\ ko_watch = NoWatch
  /\ turns_parity = 0
  /\ outcome = NoOutcome
  /\ AgentsNew

SetUp(kinds) ==
  /\ last.op = "new"
  /\ \E target \in Targets(kinds) : board' = PlaceAll(board, target, 0)
  /\ last' = [op |-> "set_up", x |-> 0, y |-> 0, stone |-> "Black", ret |-> "",
              before |-> NoBoard]
  /\ UNCHANGED <<gameVars, agentVars>>

\* One call is made on the position that was set up.
CanProbe == last.op \in {"new", "set_up"}

Probed(op, x, y, stone, ret) ==
  /\ last' = [op |-> op, x |-> x, y |-> y, stone |-> stone, ret |-> ret,
              before |-> NoBoard]
  /\ UNCHANGED <<board, gameVars, agentVars>>

CallGet ==
  /\ CanProbe
  /\ \E p \in Inputs : Probed("get", p[1], p[2], "Black", Get(board, p[1], p[2]))

CallIsEye ==
  /\ CanProbe
  /\ \E p \in Inputs, stone \in Stone :
       /\ p[1] < size /\ p[2] < size
       /\ Probed("is_eye", p[1], p[2], stone,
                 IF IsEye(board, p[1], p[2], stone) THEN "true" ELSE "false")

Answered(op, stone, r) ==
  Probed(op, r.x, r.y, stone, IF r.some THEN "Some" ELSE "None")

CallRandomAI ==
  /\ CanProbe
  /\ \E stone \in Stone : \E r \in RandomAIGetMove(board, stone) :
       Answered("RandomAI", stone, r)

\* The number of empty points of a board.
OpenPoints(b) == Cardinality({i \in Cells : b.grid[i] = EMPTY})

\* get_move of MinimaxAI::new(max_depth)
CallMinimaxAI(max_depth) ==
  /\ CanProbe
  /\ OpenPoints(board) <= MaxOpen
  /\ \E stone \in Stone :
       \E r \in {MinimaxAIGetMove(board, stone, max_depth)} :
          /\ last' = [op |-> "MinimaxAI", x |-> r.move.x, y |-> r.move.y,
                      stone |-> stone,
                      ret |-> IF r.move.some THEN "Some" ELSE "None",
                      before |-> NoBoard]
          /\ minimax_ai' = [max_depth |-> max_depth,
                            eval_count |-> r.eval_count]
  /\ UNCHANGED <<board, gameVars, mc, mcts, rollout>>

CallMonteCarloAI ==
  /\ CanProbe
  /\ OpenPoints(board) <= MaxOpen
  /\ \E stone \in Stone : \E r \in MonteCarloAIGetMove(board, stone) :
       Answered("MonteCarloAI", stone, r)

CallMcts ==
  /\ CanProbe
  /\ OpenPoints(board) <= MaxOpen
  /\ \E stone \in Stone : \E r \in RunMcts(board, stone) :
       Answered("Mcts", stone, r)

PositionNext ==
  \/ SetUp({"empty", "black"})
  \/ CallGet
  \/ CallIsEye
  \/ CallRandomAI
  \/ size * size <= MaxSearchPoints /\ CallMinimaxAI(1)
  \/ CallMonteCarloAI
  \/ CallMcts

PositionSpec == PositionInit /\ [][PositionNext]_vars

\* ---- RandomAI on boards with many eyes -----------------------------------------
ManyEyesNext ==
  \/ SetUp({"holes"})
  \/ CallRandomAI

ManyEyesSpec == PositionInit /\ [][ManyEyesNext]_vars

\* ---- MonteCarloAI::get_move, one simulation at a time --------------------------
\* get_move up to the first test of the clock.
McGetMove ==
  /\ CanProbe
  /\ OpenPoints(board) <= MaxOpen
  /\ \E stone \in Stone :
       \E c \in {MonteCarloCandidates(board, stone)} :
          IF c.none
          THEN /\ last' = [op |-> "MonteCarloAI", x |-> 0, y |-> 0,
                           stone |-> stone, ret |-> "None", before |-> NoBoard]
               /\ mc' = [McIdle EXCEPT !.pc = "done", !.stone = stone]
          ELSE /\ last' = [op |-> "get_move", x |-> 0, y |-> 0,
                           stone |-> stone, ret |-> "", before |-> NoBoard]
               /\ mc' = [pc |-> "simulating", stone |-> stone,
                         valid_moves |-> c.valid_moves,
                         move_wins |-> [i \in 1..Len(c.valid_moves) |-> 0],
                         move_games |-> [i \in 1..Len(c.valid_moves) |-> 0],
                         idx |-> 1]
  /\ UNCHANGED <<board, gameVars, minimax_ai, mcts, rollout>>

\* The number of simulations run so far.
RECURSIVE SumFrom(_, _)
SumFrom(counts, i) ==
  IF i > Len(counts) THEN 0 ELSE counts[i] + SumFrom(counts, i + 1)

\* One pass of the body of the `for (idx, &(x, y))` loop: the clock has not
\* run out, one game is simulated for the candidate idx.
McSimulate ==
  /\ mc.pc = "simulating"
  /\ SumFrom(mc.move_games, 1) < MaxSimulations
  /\ \E result \in SimulateGameResults :
       mc' = [mc EXCEPT !.move_games[mc.idx] = @ + 1,
                        !.move_wins[mc.idx] = @ + result,
                        !.idx = (mc.idx % Len(mc.valid_moves)) + 1]
  /\ UNCHANGED <<board, gameVars, last, minimax_ai, mcts, rollout>>

\* The clock has run out: the selection loop and the return.
McAnswer ==
  /\ mc.pc = "simulating"
  /\ \E best_idx \in {SelectBest(mc.move_wins, mc.move_games, 1, 1, 0, 1)} :
     \E best \in {mc.valid_moves[best_idx]} :
        last' = [op |-> "MonteCarloAI", x |-> best[1], y |-> best[2],
                 stone |-> mc.stone, ret |-> "Some", before |-> NoBoard]
  /\ mc' = [mc EXCEPT !.pc = "done"]
  /\ UNCHANGED <<board, gameVars, minimax_ai, mcts, rollout>>

MonteCarloNext ==
  \/ SetUp({"holes"})
  \/ McGetMove
  \/ McSimulate
  \/ McAnswer

MonteCarloSpec == PositionInit /\ [][MonteCarloNext]_vars

\* ---- Mcts::run_mcts, one iteration at a time ----------------------------------
\* Mutant: run_mcts builds the root and searches also for a single move.
RunMctsStartAlwaysSearches(b, stone) ==
  LET valid_moves == GetValidMoves(b, stone)
  IN IF valid_moves = << >>
     THEN [answer |-> "None", move |-> NoneMove, nodes |-> << >>]
     ELSE [answer |-> "", move |-> NoneMove,
           nodes |-> <<MctsNodeNew(stone, NoneMove, valid_moves)>>]

\* run_mcts up to its loop: the two early returns, or the root.
RunMctsStart(b, stone) ==
  LET valid_moves == GetValidMoves(b, stone)
  IN IF valid_moves = << >>
     THEN [answer |-> "None", move |-> NoneMove, nodes |-> << >>]
     ELSE IF Len(valid_moves) = 1
     THEN [answer |-> "Some", move |-> SomeMove(valid_moves[1]),
           nodes |-> << >>]
     ELSE [answer |-> "", move |-> NoneMove,
           nodes |-> <<MctsNodeNew(stone, NoneMove, valid_moves)>>]

\* The history kept for a node when it is created.
NoteNew(parent, available_moves) ==
  [parent |-> parent, available_moves |-> available_moves,
   won_black |-> 0, won_white |-> 0, drawn |-> 0]

MctsRunMcts ==
  /\ CanProbe
  /\ \E stone \in Stone :
       \E start \in {RunMctsStart(board, stone)} :
          /\ last' = [op |-> IF start.answer = "" THEN "run_mcts" ELSE "Mcts",
                      x |-> start.move.x, y |-> start.move.y, stone |-> stone,
                      ret |-> start.answer, before |-> NoBoard]
          /\ mcts' = [pc |-> IF start.answer = "" THEN "searching" ELSE "done",
                      stone |-> stone, nodes |-> start.nodes,
                      notes |-> [i \in 1..Len(start.nodes) |->
                                   NoteNew(0, start.nodes[i].untried_moves)],
                      iterations |-> 0, path |-> << >>]
  /\ UNCHANGED <<board, gameVars, minimax_ai, mc, rollout>>

\* The history of the nodes after an iteration: the note of the new node, and
\* on every node of the path the end of the simulation (simulation_result is
\* for current_player: 2 a win, 0 a loss, 1 a close game).
NotesAfter(notes, node, expanded, path, current_player, simulation_result) ==
  LET all == IF expanded.child = 0 THEN notes
             ELSE Append(notes,
                         NoteNew(node,
                                 expanded.nodes[expanded.child].untried_moves))
      winner == IF simulation_result = 1 THEN "none"
                ELSE IF simulation_result = 2 THEN current_player
                ELSE Opposite(current_player)
  IN [i \in 1..Len(all) |->
        IF \E k \in 1..Len(path) : path[k] = i
        THEN [all[i] EXCEPT
                !.won_black = IF winner = "Black" THEN @ + 1 ELSE @,
                !.won_white = IF winner = "White" THEN @ + 1 ELSE @,
                !.drawn = IF winner = "none" THEN @ + 1 ELSE @]
        ELSE all[i]]

\* One iteration of the `while start_time.elapsed() < self.time_limit` loop:
\* selection, expansion with the random index idx, simulation with its
\* result, backpropagation.
MctsIterate ==
  /\ mcts.pc = "searching"
  /\ mcts.iterations < MaxIterations
  /\ \E selected \in {Selection(mcts.nodes, 1, board, mcts.stone, <<1>>)} :
       IF selected.fault
       THEN mcts' = [mcts EXCEPT !.pc = "panicked"]
       ELSE \E idx \in 1..Max(1, Len(mcts.nodes[selected.node].untried_moves)) :
            \E expanded \in {Expand(mcts.nodes, selected.node, selected.board,
                                    selected.player, idx)} :
            \E path \in {IF expanded.child = 0 THEN selected.path
                         ELSE Append(selected.path, expanded.child)} :
            \E simulation_result \in SimulateResults :
              mcts' = [mcts EXCEPT
                         !.nodes = UpdatePath(expanded.nodes, path,
                                              BlackWon(expanded.player,
                                                       simulation_result)),
                         !.notes = NotesAfter(mcts.notes, selected.node,
                                              expanded, path, expanded.player,
                                              simulation_result),
                         !.iterations = @ + 1,
                         !.path = path]
  /\ UNCHANGED <<board, gameVars, last, minimax_ai, mc, rollout>>

\* The clock has run out: the most visited child of the root, or None (the
\* `?`) when the root has no child.
MctsReturn ==
  /\ mcts.pc = "searching"
  /\ IF mcts.nodes[1].children = << >>
     THEN last' = [op |-> "Mcts", x |-> 0, y |-> 0, stone |-> mcts.stone,
                   ret |-> "None", before |-> NoBoard]
     ELSE \E best_child \in {BestChild(mcts.nodes, 2,
                                         mcts.nodes[1].children[1])} :
          \E best_move \in {mcts.nodes[best_child].move_pos} :
             last' = [op |-> "Mcts", x |-> best_move.x, y |-> best_move.y,
                      stone |-> mcts.stone, ret |-> "Some", before |-> NoBoard]
  /\ mcts' = [mcts EXCEPT !.pc = "done"]
  /\ UNCHANGED <<board, gameVars, minimax_ai, mc, rollout>>

\* Board::new(n) for every n with at most MaxSearchPoints points.
MctsInit ==
  /\ PositionInit
  /\ size * size <= MaxSearchPoints

MctsNext ==
  \/ SetUp({"empty"})
  \/ MctsRunMcts
  \/ MctsIterate
  \/ MctsReturn

MctsSpec == MctsInit /\ [][MctsNext]_vars

\* ---- MinimaxAI on small boards ------------------------------------------------
\* Board::new(n) for every n from 1 to Size.
SearchInit ==
  /\ PositionInit
  /\ size <= Size

\* Depth 1 on every board, the depths up to MaxDepth on the boards of at most
\* MaxSearchPoints points.
CallMinimaxAIAtDepths ==
  \E max_depth \in 1..MaxDepth :
    /\ max_depth = 1 \/ size * size <= MaxSearchPoints
    /\ CallMinimaxAI(max_depth)

SearchNext ==
  \/ SetUp({"empty", "black"})
  \/ CallMinimaxAIAtDepths

SearchSpec == SearchInit /\ [][SearchNext]_vars

\* ---- the random games of MonteCarloAI and Mcts -----------------------------
\* `let max_moves = board.size() * board.size() * 2` of simulate_game
SimulateGameMaxMoves == size * size * 2

\* Mutant: the random game of Mcts runs as long as that of MonteCarloAI.
SimulateMaxMovesDoubled == size * size * 2

\* `let max_moves = board.size() * board.size()` of Mcts::simulate
SimulateMaxMoves == size * size

\* The end of simulate_game: 1 for 1.0 and 0 for 0.0, for the color stone.
SimulateGameResult(b, stone) ==
  LET stones == CountStones(b)
      captured == GetCaptured(b)
      black_score == stones[1] + captured[1]
      white_score == stones[2] + captured[2]
  IN IF stone = "Black"
     THEN IF black_score > white_score THEN 1 ELSE 0
     ELSE IF white_score > black_score THEN 1 ELSE 0

\* The end of Mcts::simulate, doubled: 2 for 1.0, 1 for 0.5 and 0 for 0.0, for
\* the color stone.
SimulateResult(b, stone) ==
  LET stones == CountStones(b)
      captured == GetCaptured(b)
      black_bonus == IF CountEyesForColor(b, "Black") >= 2 THEN 5 ELSE 0
      white_bonus == IF CountEyesForColor(b, "White") >= 2 THEN 5 ELSE 0
      final_black_score == stones[1] + captured[1] + black_bonus
      final_white_score == stones[2] + captured[2] + white_bonus
  IN IF stone = "Black"
     THEN IF final_black_score > final_white_score + 2 THEN 2
          ELSE IF final_white_score > final_black_score + 2 THEN 0
          ELSE 1
     ELSE IF final_white_score > final_black_score + 2 THEN 2
          ELSE IF final_black_score > final_white_score + 2 THEN 0
          ELSE 1

\* The value a random game returns on the board it ended on.
RolloutResult(agent, b, stone) ==
  IF agent = "MonteCarloAI" THEN SimulateGameResult(b, stone)
  ELSE SimulateResult(b, stone)

\* MonteCarloAI::simulate_game up to its loop, for a candidate first_move of
\* get_move.
SimulateGameStart ==
  /\ CanProbe
  /\ \E stone \in Stone :
       \E c \in {MonteCarloCandidates(board, stone)} :
       \E i \in 1..Len(c.valid_moves) :
       \E placed \in {PlaceStone(board, c.valid_moves[i][1],
                                 c.valid_moves[i][2], stone)} :
          /\ last' = [op |-> "simulate_game", x |-> c.valid_moves[i][1],
                      y |-> c.valid_moves[i][2], stone |-> stone, ret |-> "",
                      before |-> NoBoard]
          /\ rollout' =
               IF ~placed.ok
               THEN [RolloutIdle EXCEPT !.pc = "ended",
                                        !.agent = "MonteCarloAI",
                                        !.stone = stone]
               ELSE [pc |-> "playing", agent |-> "MonteCarloAI",
                     stone |-> stone, sim_board |-> placed.board,
                     current_turn |-> Opposite(stone),
                     consecutive_passes |-> 0, moves |-> 0, turns |-> 0,
                     result |-> 0]
  /\ UNCHANGED <<board, gameVars, minimax_ai, mc, mcts>>

\* Mcts::simulate up to its loop.
SimulateStart ==
  /\ CanProbe
  /\ \E stone \in Stone :
       /\ last' = [op |-> "simulate", x |-> 0, y |-> 0, stone |-> stone,
                   ret |-> "", before |-> NoBoard]
       /\ rollout' = [pc |-> "playing", agent |-> "Mcts", stone |-> stone,
                      sim_board |-> board, current_turn |-> stone,
                      consecutive_passes |-> 0, moves |-> 0, turns |-> 0,
                      result |-> 0]
  /\ UNCHANGED <<board, gameVars, minimax_ai, mc, mcts>>

\* The rest of a turn of either loop once the move is made or passed: the
\* break on two passes, the change of turn, the count of moves and the break
\* on max_moves.  turns counts the turns begun.
TurnEnds(sim_board, passes, max_moves) ==
  IF passes >= 2
  THEN [rollout EXCEPT
          !.pc = "ended", !.sim_board = sim_board,
          !.consecutive_passes = passes, !.turns = @ + 1,
          !.result = RolloutResult(rollout.agent, sim_board, rollout.stone)]
  ELSE [rollout EXCEPT
          !.pc = IF rollout.moves + 1 >= max_moves THEN "ended" ELSE "playing",
          !.sim_board = sim_board,
          !.consecutive_passes = passes,
          !.current_turn = Opposite(@),
          !.moves = @ + 1, !.turns = @ + 1,
          !.result = IF rollout.moves + 1 >= max_moves
                     THEN RolloutResult(rollout.agent, sim_board,
                                        rollout.stone)
                     ELSE 0]

\* One turn of the loop of simulate_game: the move of a RandomAI.
SimulateGameTurn ==
  /\ rollout.pc = "playing" /\ rollout.agent = "MonteCarloAI"
  /\ \E move \in RandomAIGetMove(rollout.sim_board, rollout.current_turn) :
       IF move.some
       THEN \E placed \in {PlaceStone(rollout.sim_board, move.x, move.y,
                                      rollout.current_turn)} :
              rollout' = TurnEnds(placed.board,
                                  IF placed.ok THEN 0
                                  ELSE rollout.consecutive_passes,
                                  SimulateGameMaxMoves)
       ELSE rollout' = TurnEnds(rollout.sim_board,
                                rollout.consecutive_passes + 1,
                                SimulateGameMaxMoves)
  /\ UNCHANGED <<board, gameVars, last, minimax_ai, mc, mcts>>

\* One turn of the loop of Mcts::simulate: a random one of get_valid_moves.
SimulateTurn ==
  /\ rollout.pc = "playing" /\ rollout.agent = "Mcts"
  /\ \E valid_moves \in {GetValidMoves(rollout.sim_board,
                                       rollout.current_turn)} :
       IF valid_moves = << >>
       THEN rollout' = TurnEnds(rollout.sim_board,
                                rollout.consecutive_passes + 1,
                                SimulateMaxMoves)
       ELSE \E idx \in 1..Len(valid_moves) :
            \E placed \in {PlaceStone(rollout.sim_board, valid_moves[idx][1],
                                      valid_moves[idx][2],
                                      rollout.current_turn)} :
              rollout' = TurnEnds(placed.board,
                                  IF placed.ok THEN 0
                                  ELSE rollout.consecutive_passes,
                                  SimulateMaxMoves)
  /\ UNCHANGED <<board, gameVars, last, minimax_ai, mc, mcts>>

\* Board::new(n) for every n with at most MaxSearchPoints points.
RolloutInit ==
  /\ PositionInit
  /\ size * size <= MaxSearchPoints

RolloutNext ==
  \/ SetUp({"empty"})
  \/ SimulateGameStart
  \/ SimulateStart
  \/ SimulateGameTurn
  \/ SimulateTurn

RolloutSpec == RolloutInit /\ [][RolloutNext]_vars


\* ---- Game::end_game --------------------------------------------------------
\* Mutant: each eye of a color adds a point to its score.
EndGameEyeBonus(b) ==
  LET stones == CountStones(b)
      captured == GetCaptured(b)
      black_score == stones[1] + captured[1] + CountEyesForColor(b, "Black")
      white_score == stones[2] + captured[2] + CountEyesForColor(b, "White")
  IN [black_score |-> black_score,
      white_score |-> white_score,
      said |-> IF black_score > white_score THEN "Black wins"
               ELSE IF white_score > black_score THEN "White wins"
               ELSE "draw",
      by |-> IF black_score > white_score THEN black_score - white_score
             ELSE IF white_score > black_score THEN white_score - black_score
             ELSE 0]

\* Game::end_game: the two scores and the verdict it prints.
EndGame(b) ==
  LET stones == CountStones(b)
      captured == GetCaptured(b)
      black_score == stones[1] + captured[1]
      white_score == stones[2] + captured[2]
  IN [black_score |-> black_score,
      white_score |-> white_score,
      said |-> IF black_score > white_score THEN "Black wins"
               ELSE IF white_score > black_score THEN "White wins"
               ELSE "draw",
      by |-> IF black_score > white_score THEN black_score - white_score
             ELSE IF white_score > black_score THEN white_score - black_score
             ELSE 0]

\* ---- Game::play: one action per iteration of its loop ----------------------
\* What the loop prints: the coordinates appear only in "... plays at ...".
Said(op, x, y, stone, ret) ==
  [op |-> op, x |-> IF ret = "committed" THEN x ELSE 0,
   y |-> IF ret = "committed" THEN y ELSE 0,
   stone |-> stone, ret |-> ret, before |-> NoBoard]

\* Mutant: the candidate is compared with the latest entry, not the one before.
KoViolationLatest(history, new_hash) ==
  LET history_len == Len(history)
  IN history_len >= 2 /\ history[history_len] = new_hash

\* The Ko test of Game::play on the hash of the scratch board.
KoViolation(history, new_hash) ==
  LET history_len == Len(history)
  IN history_len >= 2 /\ history[history_len - 1] = new_hash

\* How the rejection being followed evolves.  Stage 1: the move (x, y) of
\* who was rejected for Ko and who is still to move.  Stage 2: who has since
\* committed a move elsewhere.  Stage 3: who has then played (x, y) again and
\* it was committed.
WatchAfterMove(x, y, ret) ==
  IF ret = "ko"
  THEN IF ko_watch.stage = 2 /\ ko_watch.who # current_turn
       THEN ko_watch
       ELSE [stage |-> 1, x |-> x, y |-> y, who |-> current_turn]
  ELSE IF ret = "committed"
  THEN IF ko_watch.stage = 1 /\ ko_watch.who = current_turn
       THEN [ko_watch EXCEPT !.stage = 2]
       ELSE IF ko_watch.stage = 2 /\ ko_watch.who # current_turn
       THEN ko_watch
       ELSE IF ko_watch.stage = 2 /\ <<ko_watch.x, ko_watch.y>> = <<x, y>>
       THEN [ko_watch EXCEPT !.stage = 3]
       ELSE NoWatch
  ELSE ko_watch

WatchAfterPass ==
  IF ko_watch.stage = 2 /\ ko_watch.who # current_turn THEN ko_watch ELSE NoWatch

\* Mutant: a rejected move falls through to the end of the loop body, where
\* the turn changes hands.
RejectAndSwitch(x, y, ret) ==
  /\ last' = Said("play", x, y, current_turn, ret)
  /\ ko_watch' = WatchAfterMove(x, y, ret)
  /\ current_turn' = Opposite(current_turn)
  /\ UNCHANGED <<board, size, agentVars, consecutive_passes, previous_board, board_history,
                 pc, turns_parity, outcome>>

\* The rejecting branches of Game::play: print the reason and `continue`.
Reject(x, y, ret) ==
  /\ last' = Said("play", x, y, current_turn, ret)
  /\ ko_watch' = WatchAfterMove(x, y, ret)
  /\ UNCHANGED <<board, size, agentVars, current_turn, consecutive_passes,
                 previous_board, board_history, pc, turns_parity, outcome>>

\* Mutant: a committed move is not recorded in board_history.
PlayMoveNoRecord(x, y) ==
  /\ pc = "InProgress"
  /\ Len(board_history) <= MaxMoves
  /\ IF ~IsValidMove(board, x, y, current_turn)
     THEN Reject(x, y, "invalid")
     ELSE LET test == PlaceStone(board, x, y, current_turn)
          IN IF ~test.ok
             THEN Reject(x, y, "cannot place")
             ELSE IF KoViolation(board_history, GetHash(test.board))
             THEN Reject(x, y, "ko")
             ELSE LET board_before_move == board
                      r == PlaceStone(board, x, y, current_turn)
                  IN IF r.ok
                     THEN /\ board' = r.board
                          /\ consecutive_passes' = 0
                          /\ previous_board' = board_before_move
                          /\ current_turn' = Opposite(current_turn)
                          /\ last' = Said("play", x, y, current_turn, "committed")
                          /\ ko_watch' = WatchAfterMove(x, y, "committed")
                          /\ turns_parity' = (turns_parity + 1) % 2
                          /\ UNCHANGED <<size, agentVars, pc, outcome, board_history>>
                     ELSE Reject(x, y, r.err)

\* get_move returned Some((x, y)).
PlayMove(x, y) ==
  /\ pc = "InProgress"
  /\ Len(board_history) <= MaxMoves
  /\ IF ~IsValidMove(board, x, y, current_turn)
     THEN Reject(x, y, "invalid")
     ELSE LET test == PlaceStone(board, x, y, current_turn)
          IN IF ~test.ok
             THEN Reject(x, y, "cannot place")
             ELSE IF KoViolation(board_history, GetHash(test.board))
             THEN Reject(x, y, "ko")
             ELSE LET board_before_move == board
                      r == PlaceStone(board, x, y, current_turn)
                  IN IF r.ok
                     THEN /\ board' = r.board
                          /\ consecutive_passes' = 0
                          /\ previous_board' = board_before_move
                          /\ board_history' = Append(board_history, GetHash(r.board))
                          /\ current_turn' = Opposite(current_turn)
                          /\ last' = Said("play", x, y, current_turn, "committed")
                          /\ ko_watch' = WatchAfterMove(x, y, "committed")
                          /\ turns_parity' = (turns_parity + 1) % 2
                          /\ UNCHANGED <<size, agentVars, pc, outcome>>
                     ELSE Reject(x, y, r.err)

\* Mutant: the loop ends only on the third pass in a row.
PlayPassThree ==
  /\ pc = "InProgress"
  /\ consecutive_passes' = consecutive_passes + 1
  /\ IF consecutive_passes + 1 >= 3
     THEN /\ pc' = "Finished"
          /\ outcome' = EndGame(board)
          /\ UNCHANGED current_turn
     ELSE /\ current_turn' = Opposite(current_turn)
          /\ UNCHANGED <<pc, outcome>>
  /\ last' = Said("pass", 0, 0, current_turn, "passes")
  /\ ko_watch' = WatchAfterPass
  /\ turns_parity' = (turns_parity + 1) % 2
  /\ UNCHANGED <<board, size, agentVars, previous_board, board_history>>

\* get_move returned None.
PlayPass ==
  /\ pc = "InProgress"
  /\ consecutive_passes' = consecutive_passes + 1
  /\ IF consecutive_passes + 1 >= 2
     THEN /\ pc' = "Finished"
          /\ outcome' = EndGame(board)
          /\ UNCHANGED current_turn
     ELSE /\ current_turn' = Opposite(current_turn)
          /\ UNCHANGED <<pc, outcome>>
  /\ last' = Said("pass", 0, 0, current_turn, "passes")
  /\ ko_watch' = WatchAfterPass
  /\ turns_parity' = (turns_parity + 1) % 2
  /\ UNCHANGED <<board, size, agentVars, previous_board, board_history>>

\* The two players of a game are different objects with different
\* repertoires: player1 (Black) answers the odd-numbered input cells, player2
\* (White) the even-numbered ones; both may answer an out-of-range point or
\* pass.
PlayerInputs(stone) ==
  {p \in Inputs :
     \/ p[1] >= size \/ p[2] >= size
     \/ Index(p[1], p[2]) % 2 = (IF stone = "Black" THEN 1 ELSE 0)}

Next ==
  \/ \E p \in PlayerInputs(current_turn) : PlayMove(p[1], p[2])
  \/ PlayPass

Spec == Init /\ [][Next]_vars

\* ---- vocabulary of the properties -----------------------------------------
\* Orthogonal adjacency on cell indices, stated without the neighbour array.
Adjacent(i, j) ==
  \/ (i \div size = j \div size /\ (i - j = 1 \/ j - i = 1))
  \/ (i % size = j % size /\ (i - j = size \/ j - i = size))

\* The maximal connected same-coloured set of cells containing i: the least
\* fixed point of growing by adjacency.
RECURSIVE Grow(_, _)
Grow(g, S) ==
  LET T == S \cup {j \in Cells : g[j] # EMPTY /\ \E i \in S : Adjacent(i, j) /\ g[i] = g[j]}
  IN IF T = S THEN S ELSE Grow(g, T)

GroupOf(g, i) == IF g[i] = EMPTY THEN {} ELSE Grow(g, {i})

LibertiesOf(g, G) == {j \in Cells : g[j] = EMPTY /\ \E i \in G : Adjacent(i, j)}

AllGroupsHaveLiberty(g) ==
  \A i \in Cells : g[i] # EMPTY => LibertiesOf(g, GroupOf(g, i)) # {}

WasPlaced == last.op = "place_stone"

\* C1: after any sequence of place_stone calls from the empty board, every
\* maximal connected same-coloured group has at least one empty adjacent cell.
C1_EveryGroupHasLiberty == AllGroupsHaveLiberty(board.grid)

\* C1 witness: a call has just removed a captured group of two or more stones
\* and groups of both colours stand on the board.
C1_Witness ==
  /\ WasPlaced /\ last.ret = "Ok"
  /\ \E i, j \in Cells :
       /\ i # j
       /\ last.before.grid[i] # EMPTY /\ last.before.grid[i] # StoneToU8(last.stone)
       /\ last.before.grid[j] = last.before.grid[i]
       /\ board.grid[i] = EMPTY /\ board.grid[j] = EMPTY
  /\ \E i, j \in Cells : board.grid[i] = BLACK /\ board.grid[j] = WHITE

\* C10: the game is InProgress or Finished; it is Finished exactly when a
\* pass has raised consecutive_passes to 2; a committed move resets the
\* counter to 0, a rejected move leaves it alone, a single pass leaves the
\* game InProgress, and the counter stays within {0, 1, 2}.
C10_PassStateMachine ==
  /\ [](/\ pc \in {"InProgress", "Finished"}
        /\ consecutive_passes \in {0, 1, 2}
        /\ (pc = "Finished" <=> consecutive_passes = 2))
  /\ [][/\ (last'.op = "pass" => consecutive_passes' = consecutive_passes + 1)
        /\ (last'.ret = "committed" => consecutive_passes' = 0 /\ pc' = "InProgress")
        /\ (last'.op = "play" /\ last'.ret # "committed"
              => consecutive_passes' = consecutive_passes /\ pc' = pc)
        /\ (pc' = "Finished" => last'.op = "pass" /\ consecutive_passes = 1)
        /\ (last'.op = "pass" /\ consecutive_passes = 0 => pc' = "InProgress")]_vars

\* C10 witness: a game with committed moves has ended on its second pass in a
\* row, after an earlier single pass had been followed by a committed move.
C10_Witness ==
  /\ pc = "Finished" /\ consecutive_passes = 2 /\ last.op = "pass"
  /\ Len(board_history) >= 3
  /\ Opposite(current_turn) = "Black"
  /\ Cardinality({i \in Cells : board.grid[i] = WHITE}) >= 2

\* ---- place_stone seen from outside: the board before and after a call ------
InRange(x, y) == x < size /\ y < size

\* The grid of the last call with the new stone added and nothing removed yet.
WithStone == [last.before.grid EXCEPT ![Index(last.x, last.y)] = StoneToU8(last.stone)]

\* The cells of the opposing groups next to the new stone that are left
\* without a liberty once the stone is added.
DeadOpponents ==
  LET o == OppositeU8(StoneToU8(last.stone))
  IN UNION {GroupOf(WithStone, j) : j \in {k \in Cells :
              /\ Adjacent(k, Index(last.x, last.y))
              /\ WithStone[k] = o
              /\ LibertiesOf(WithStone, GroupOf(WithStone, k)) = {}}}

PlacedOk ==
  /\ WasPlaced
  /\ InRange(last.x, last.y)
  /\ last.before.grid[Index(last.x, last.y)] = EMPTY

CreditOf(b, stone) == IF stone = "Black" THEN b.captured[1] ELSE b.captured[2]

\* XOR of the keys of the occupied cells i..size*size-1 of a grid.
RECURSIVE KeysFrom(_, _)
KeysFrom(g, i) ==
  IF i >= size * size THEN {}
  ELSE IF g[i] = EMPTY THEN KeysFrom(g, i + 1)
  ELSE Xor(GetStoneHash(i % size, i \div size, g[i] = BLACK), KeysFrom(g, i + 1))

\* C2: the hash of every reachable board is the XOR of the keys (cell,
\* colour) of exactly its occupied cells, whatever placements, captures and
\* self-captures produced it; so the empty board hashes to 0 and equal
\* positions have equal hashes.
C2_HashIsXorOfOccupied == board.current_hash = KeysFrom(board.grid, 0)

\* C2 witness: a call has just captured stones, stones of both colours remain.
C2_Witness ==
  /\ PlacedOk /\ DeadOpponents # {}
  /\ board.current_hash # {}
  /\ \E i, j \in Cells : board.grid[i] = BLACK /\ board.grid[j] = WHITE

\* C3: a successful place_stone(p, c) removes exactly the opposing groups next
\* to p that have no liberty once the stone is added, all of their cells and no
\* other cell, and adds the number of removed stones to the credit of c only.
C3_CaptureRemovesDeadGroupsAndCredits ==
  PlacedOk =>
    LET o == OppositeU8(StoneToU8(last.stone))
        dead == DeadOpponents
    IN /\ last.ret = "Ok"
       /\ \A i \in dead : board.grid[i] = EMPTY
       /\ \A i \in Cells : (WithStone[i] = o /\ i \notin dead) => board.grid[i] = o
       /\ dead # {} => \A i \in Cells \ dead : board.grid[i] = WithStone[i]
       /\ CreditOf(board, last.stone) = CreditOf(last.before, last.stone) + Cardinality(dead)
       /\ CreditOf(board, Opposite(last.stone)) = CreditOf(last.before, Opposite(last.stone))

\* C3 witness: one call removed two separate opposing groups while a third
\* opposing group next to the new stone stayed.
C3_Witness ==
  /\ PlacedOk
  /\ \E i, j \in DeadOpponents : i # j /\ j \notin GroupOf(WithStone, i)
  /\ \E k \in Cells : /\ Adjacent(k, Index(last.x, last.y))
                      /\ board.grid[k] = OppositeU8(StoneToU8(last.stone))

\* The case of C4: the new stone's group has no liberty and nothing is captured.
SelfCaptureCase ==
  /\ PlacedOk
  /\ DeadOpponents = {}
  /\ LibertiesOf(WithStone, GroupOf(WithStone, Index(last.x, last.y))) = {}

\* C4: place_stone on an empty in-range point whose new group has no liberty
\* and which captures nothing returns Ok, removes the whole group of the new
\* stone and nothing else, and changes neither capture counter.
C4_SelfCaptureRemovesGroupNoCredit ==
  SelfCaptureCase =>
    LET own == GroupOf(WithStone, Index(last.x, last.y))
    IN /\ last.ret = "Ok"
       /\ \A i \in own : board.grid[i] = EMPTY
       /\ \A i \in Cells \ own : board.grid[i] = last.before.grid[i]
       /\ board.captured = last.before.captured

\* C4 witness: a self-capture that took friendly stones along with the new one.
C4_Witness ==
  /\ SelfCaptureCase
  /\ Cardinality(GroupOf(WithStone, Index(last.x, last.y))) >= 2
  /\ \A i \in GroupOf(WithStone, Index(last.x, last.y)) : board.grid[i] = EMPTY

\* C5: place_stone returns an error exactly when the point is out of range or
\* occupied, and an erroring call leaves grid, counters and hash as they were.
C5_PlaceFailsOnlyOutOfRangeOrOccupied ==
  WasPlaced =>
    /\ (last.ret # "Ok") <=>
         (\/ last.x >= size \/ last.y >= size
          \/ last.before.grid[Index(last.x, last.y)] # EMPTY)
    /\ (last.ret # "Ok" => board = last.before)

\* C5 witness: a call on an occupied point failed on a board with captures.
C5_Witness ==
  /\ WasPlaced /\ last.ret = "Position already occupied"
  /\ InRange(last.x, last.y)
  /\ board.grid[Index(last.x, last.y)] # StoneToU8(last.stone)
  /\ board.captured # <<0, 0>>

\* The three grounds of legality of C6 for the point of the last call.
CapturesSomething(g, p, c) ==
  \E j \in Cells : /\ Adjacent(j, p) /\ g[j] = OppositeU8(c)
                   /\ LibertiesOf(g, GroupOf(g, j)) \subseteq {p}

HasEmptyNeighbor(g, p) == \E j \in Cells : Adjacent(j, p) /\ g[j] = EMPTY

JoinsLivingFriend(g, p, c) ==
  \E j \in Cells : /\ Adjacent(j, p) /\ g[j] = c
                   /\ LibertiesOf(g, GroupOf(g, j)) \ {p} # {}

\* C6: is_valid_move(p, c) is false out of range or on an occupied point;
\* otherwise it is true iff the move captures an adjacent opposing group, or p
\* has an empty neighbour, or an adjacent friendly group keeps a liberty other
\* than p.
C6_IsValidMoveCharacterised ==
  last.op = "is_valid_move" =>
    (last.ret = "true") <=>
      /\ InRange(last.x, last.y)
      /\ board.grid[Index(last.x, last.y)] = EMPTY
      /\ LET p == Index(last.x, last.y)
             c == StoneToU8(last.stone)
         IN \/ CapturesSomething(board.grid, p, c)
            \/ HasEmptyNeighbor(board.grid, p)
            \/ JoinsLivingFriend(board.grid, p, c)

\* C6 witness: a capturing move found legal although the point has no empty
\* neighbour and no friendly neighbour with a spare liberty.
C6_Witness ==
  /\ last.op = "is_valid_move" /\ last.ret = "true"
  /\ InRange(last.x, last.y)
  /\ ~HasEmptyNeighbor(board.grid, Index(last.x, last.y))
  /\ ~JoinsLivingFriend(board.grid, Index(last.x, last.y), StoneToU8(last.stone))

\* ---- Game::play seen from outside -------------------------------------------
\* C7: a move whose resulting hash equals the history entry two back is not
\* committed; so in every reachable game, for every k >= 2, board_history[k]
\* differs from board_history[k-2] (indices here are one higher).
C7_NoPositionTwoBackRecreated ==
  /\ [](\A k \in 3..Len(board_history) : board_history[k] # board_history[k - 2])
  /\ [][last'.op = "play" /\ last'.ret = "committed"
          => /\ board_history' = Append(board_history, board'.current_hash)
             /\ ~(Len(board_history) >= 2
                  /\ board'.current_hash = board_history[Len(board_history) - 1])]_vars

\* C7 witness: a legal recapture has just been rejected for Ko.
C7_Witness ==
  /\ last.op = "play" /\ last.ret = "ko"
  /\ ko_watch.stage = 1 /\ ko_watch.who = current_turn
  /\ IsValidMove(board, ko_watch.x, ko_watch.y, current_turn)
  /\ GetHash(PlaceStone(board, ko_watch.x, ko_watch.y, current_turn).board)
       = board_history[Len(board_history) - 1]

\* C8: when Game::play rejects a move, the live board with its hash and
\* counters, board_history, consecutive_passes and current_turn are unchanged
\* and the loop asks the same colour again.
C8_RejectionChangesNothing ==
  [][last'.op = "play" /\ last'.ret # "committed"
       => /\ UNCHANGED <<board, board_history, consecutive_passes, current_turn,
                         previous_board>>
          /\ pc' = "InProgress"]_vars

\* C8 witness: an illegal answer has just been rejected in the middle of a
\* game, on the turn after the opponent passed.
C8_Witness ==
  /\ last.op = "play" /\ last.ret = "invalid"
  /\ consecutive_passes = 1
  /\ Len(board_history) >= 3

\* The state in which a recapture once rejected for Ko is tried again: the
\* rejected player has committed a move elsewhere, the opponent has answered,
\* and the point is legal by is_valid_move.
RetryState ==
  /\ pc = "InProgress"
  /\ ko_watch.stage = 2 /\ ko_watch.who = current_turn
  /\ IsValidMove(board, ko_watch.x, ko_watch.y, current_turn)

\* C9: a recapture rejected for Ko is accepted once the rejected player has
\* committed a move elsewhere: tried again on the player's next turn, if still
\* legal, it no longer gives the hash two back in board_history and the loop
\* does not reject it for Ko.
C9_KoLiftedAfterInterposedMove ==
  /\ [](RetryState =>
          ~KoViolation(board_history,
             GetHash(PlaceStone(board, ko_watch.x, ko_watch.y, current_turn).board)))
  /\ [][RetryState /\ last'.op = "play" /\ last'.ret = "ko"
          => <<ko_watch'.x, ko_watch'.y>> # <<ko_watch.x, ko_watch.y>>]_vars

\* C9 witness: the recapture rejected earlier has been played again and
\* committed.
C9_Witness ==
  /\ ko_watch.stage = 3
  /\ last.op = "play" /\ last.ret = "committed"
  /\ <<last.x, last.y>> = <<ko_watch.x, ko_watch.y>>
  /\ board.grid[Index(last.x, last.y)] = StoneToU8(last.stone)

\* ---- claims on the game record, the turn and the score ----------------------
\* C11: board_history starts as the single hash of the empty board; a step of
\* the loop appends exactly one entry, the hash of the board after the move,
\* when it commits a move, and leaves the history as it is when it passes or
\* rejects a move (the placement on the scratch board included); no entry is
\* ever dropped or rewritten; the last entry is always the hash of the live
\* board.
C11_HistoryRecordsCommittedMoves ==
  /\ [](last.op = "new" => board_history = <<{}>>)
  /\ [](board_history[Len(board_history)] = GetHash(board))
  /\ [][IF last'.op = "play" /\ last'.ret = "committed"
        THEN board_history' = Append(board_history, KeysFrom(board'.grid, 0))
        ELSE board_history' = board_history]_vars
  /\ [][/\ Len(board_history') >= Len(board_history)
        /\ SubSeq(board_history', 1, Len(board_history)) = board_history]_vars

\* C11 witness: a move has just been rejected for Ko, after its placement on
\* the scratch board, in a game with three committed moves or more.
C11_Witness ==
  /\ last.op = "play" /\ last.ret = "ko"
  /\ Len(board_history) >= 4

\* C12: Black moves first; a step of the loop hands the turn to the other
\* color when it commits a move or takes a pass that does not end the game,
\* and leaves the turn alone otherwise; so, while the game goes on, Black is
\* to move exactly when the committed moves and passes so far are even in
\* number.
C12_TurnAlternates ==
  /\ [](last.op = "new" => current_turn = "Black")
  /\ [][IF \/ last'.op = "play" /\ last'.ret = "committed"
           \/ last'.op = "pass" /\ pc' = "InProgress"
        THEN current_turn' = Opposite(current_turn)
        ELSE current_turn' = current_turn]_vars
  /\ [](pc = "InProgress" => (current_turn = "Black" <=> turns_parity = 0))

\* C12 witness: White is to move after a pass, a rejected move and committed
\* moves.
C12_Witness ==
  /\ pc = "InProgress"
  /\ current_turn = "White"
  /\ last.op = "play" /\ last.ret = "invalid"
  /\ consecutive_passes = 1
  /\ Len(board_history) >= 3

\* The number of stones of a color on a grid.
StonesOf(g, stone) == Cardinality({i \in Cells : g[i] = StoneToU8(stone)})

\* C13: when the game is over, the score printed for a color is the number of
\* its stones on the board plus its capture counter, nothing else; the color
\* with the strictly higher score is announced as the winner, with the
\* difference, and equal scores are announced as a draw.
C13_ScoreIsStonesPlusCredit ==
  pc = "Finished" =>
    /\ outcome.black_score = StonesOf(board.grid, "Black") + CreditOf(board, "Black")
    /\ outcome.white_score = StonesOf(board.grid, "White") + CreditOf(board, "White")
    /\ outcome.said = "Black wins" <=> outcome.black_score > outcome.white_score
    /\ outcome.said = "White wins" <=> outcome.white_score > outcome.black_score
    /\ outcome.said = "draw" <=> outcome.black_score = outcome.white_score

\* C13 witness: a game ended with a winner, a capture on a counter and an eye
\* on the board.
C13_Witness ==
  /\ pc = "Finished"
  /\ outcome.said # "draw"
  /\ board.captured # <<0, 0>>
  /\ \E stone \in Stone : CountEyesForColor(board, stone) > 0

\* ---- scenario A ---------------------------------------------------------------
\* The last call closed scenario A for the mover: the board held the mover's
\* stones at (1,0) and (0,1) and nothing else, no capture had been counted,
\* and the other color has been placed at (0,0).
ScenarioA(mover) ==
  /\ size >= 2
  /\ last.op = "place_stone" /\ last.ret = "Ok"
  /\ <<last.x, last.y>> = <<0, 0>>
  /\ last.stone = Opposite(mover)
  /\ last.before.captured = <<0, 0>>
  /\ last.before.grid = [i \in Cells |-> IF i \in {Index(1, 0), Index(0, 1)}
                                         THEN StoneToU8(mover) ELSE EMPTY]

\* C14 as stated: at the end of scenario A the stone at (0,0) is gone and the
\* capture counter of the mover is 1.
C14_ScenarioACreditsMover ==
  \A mover \in Stone :
    ScenarioA(mover) =>
      /\ board.grid[Index(0, 0)] = EMPTY
      /\ CreditOf(board, mover) = 1

\* C14 amended: at the end of scenario A the stone at (0,0) is gone, removed
\* by its own placement as a self-capture; the two stones of the mover stay
\* and neither capture counter moves: both are 0.
C14_ScenarioAIsSelfCapture ==
  \A mover \in Stone :
    ScenarioA(mover) =>
      /\ board.grid[Index(0, 0)] = EMPTY
      /\ board.grid[Index(1, 0)] = StoneToU8(mover)
      /\ board.grid[Index(0, 1)] = StoneToU8(mover)
      /\ board.captured = <<0, 0>>

\* C14 witness: scenario A has just been played with Black as the mover.
C14_Witness == ScenarioA("Black")

\* ---- claims on eyes and on new boards -----------------------------------------
\* Diagonal adjacency on cell indices, stated without the diagonal array.
Diagonal(i, j) ==
  /\ (i % size) - (j % size) \in {-1, 1}
  /\ (i \div size) - (j \div size) \in {-1, 1}

\* The eye of the rules, on cell indices: an empty cell whose orthogonal
\* neighbors all hold the color and whose diagonal neighbors pass the rule of
\* their number (1: it holds the color; 2: none holds the other color; 4: at
\* most one holds the other color).  A cell with no diagonal neighbor comes
\* under none of the three cases.
EyeOf(g, i, stone) ==
  LET c == StoneToU8(stone)
      diagonals == {j \in Cells : Diagonal(i, j)}
      opposing == {j \in diagonals : g[j] = OppositeU8(c)}
  IN /\ g[i] = EMPTY
     /\ \A j \in Cells : Adjacent(i, j) => g[j] = c
     /\ \/ Cardinality(diagonals) = 1 /\ \A j \in diagonals : g[j] = c
        \/ Cardinality(diagonals) = 2 /\ opposing = {}
        \/ Cardinality(diagonals) = 4 /\ Cardinality(opposing) <= 1

C16_NewBoardAndGame ==
  last.op = "new" =>
    /\ \A i \in Cells : board.grid[i] = EMPTY
    /\ CountStones(board) = <<0, 0>>
    /\ IsEmpty(board)
    /\ GetCaptured(board) = <<0, 0>>
    /\ \A stone \in Stone : CountEyesForColor(board, stone) = 0
    /\ current_turn = "Black"
    /\ consecutive_passes = 0
    /\ Len(board_history) = 1

\* C16 witness: a new board of one cell, the smallest size.
C16_Witness == last.op = "new" /\ size = 1 /\ DOMAIN board.grid = {0}

\* ---- claims on Board::get -----------------------------------------------------
\* C17 as stated: get called with x >= size or y >= size faults; it never
\* answers with the content of a cell.
C17_GetOutOfRangeFaults ==
  last.op = "get" /\ (last.x >= size \/ last.y >= size) => last.ret = "panic"

\* ---- claims on the agents -----------------------------------------------------
Points == (0..(size - 1)) \X (0..(size - 1))

LegalPoint(b, stone, p) == IsValidMove(b, p[1], p[2], stone)

LegalNonEyePoint(b, stone, p) ==
  IsValidMove(b, p[1], p[2], stone) /\ ~IsEye(b, p[1], p[2], stone)

LegalNonEyePoints(b, stone) == {p \in Points : LegalNonEyePoint(b, stone, p)}

AgentCalls == {"RandomAI", "MinimaxAI", "MonteCarloAI", "Mcts"}

\* C18: an agent asked for a move of a color that has no legal point on the
\* board answers None.
C18_AgentsPassWithoutLegalMove ==
  last.op \in AgentCalls /\ ~(\E p \in Points : LegalPoint(board, last.stone, p))
    => last.ret = "None"

\* C18 witness: Mcts has answered None for a color that has no legal point on
\* a board with empty points.
C18_Witness ==
  /\ last.op = "Mcts" /\ last.ret = "None"
  /\ ~(\E p \in Points : LegalPoint(board, last.stone, p))
  /\ \E i \in Cells : board.grid[i] = EMPTY

\* C19: RandomAI asked for a move of a color with two eyes or fewer answers
\* with a legal point that is not an eye of the color when there is one, and
\* with None when there is none.
C19_RandomAIKeepsEyes ==
  last.op = "RandomAI" /\ CountEyesForColor(board, last.stone) <= 2 =>
    IF \E p \in Points : LegalNonEyePoint(board, last.stone, p)
    THEN /\ last.ret = "Some"
         /\ LegalNonEyePoint(board, last.stone, <<last.x, last.y>>)
         /\ ~EyeOf(board.grid, Index(last.x, last.y), last.stone)
    ELSE last.ret = "None"

\* C19 witness: RandomAI has answered None for a color whose only legal
\* points are eyes of its own, two or fewer.
C19_Witness ==
  /\ last.op = "RandomAI" /\ last.ret = "None"
  /\ CountEyesForColor(board, last.stone) <= 2
  /\ \E p \in Points : LegalPoint(board, last.stone, p)

\* The number of the points of a set that come before p in the order of the
\* scan.
Before(points, p) ==
  Cardinality({q \in points : Index(q[1], q[2]) < Index(p[1], p[2])})

\* C20 as stated: every legal non-eye point of a color is one of the answers
\* RandomAI can give for that color.
C20_RandomAIReachesEveryPoint ==
  CanProbe =>
    \A stone \in Stone :
      LET answers == RandomAIGetMove(board, stone)
      IN \A p \in LegalNonEyePoints(board, stone) : SomeMove(p) \in answers

\* C20 amended: a legal non-eye point p of a color is one of the answers
\* RandomAI can give for that color exactly when fewer than 10 legal non-eye
\* points come before p in the row-by-row order of the scan and p is among
\* the first 50 points of that order or no legal non-eye point comes before
\* it.
C20_RandomAIReachesScannedPoints ==
  CanProbe =>
    \A stone \in Stone :
      LET answers == RandomAIGetMove(board, stone)
          non_eye == LegalNonEyePoints(board, stone)
      IN \A p \in non_eye :
           SomeMove(p) \in answers
             <=> /\ Before(non_eye, p) < 10
                 /\ Index(p[1], p[2]) < 50 \/ Before(non_eye, p) = 0

\* C20 witness: RandomAI has answered with a point for a color that has more
\* than 10 legal non-eye points.
C20_Witness ==
  /\ last.op = "RandomAI" /\ last.ret = "Some"
  /\ Cardinality(LegalNonEyePoints(board, last.stone)) > 10

\* The answers of a set that are eyes of the color, and those that are not.
EyeAnswer(b, stone, r) == r.some /\ IsEye(b, r.x, r.y, stone)

NonEyeAnswer(b, stone, r) == r.some /\ ~IsEye(b, r.x, r.y, stone)

\* A color with more than 2 eyes that has a legal eye point and a legal
\* non-eye point.
ManyEyesBothKinds(b, stone) ==
  /\ CountEyesForColor(b, stone) > 2
  /\ \E p \in Points : LegalPoint(b, stone, p) /\ IsEye(b, p[1], p[2], stone)
  /\ \E p \in Points : LegalNonEyePoint(b, stone, p)

\* C21 as stated: for a color with more than 2 eyes that has legal eye points
\* and legal non-eye points, RandomAI can answer with a non-eye point and can
\* answer with an eye point, in every such position.
C21_EyeFillingAlwaysPossible ==
  CanProbe =>
    \A stone \in Stone :
      ManyEyesBothKinds(board, stone) =>
        LET answers == RandomAIGetMove(board, stone)
        IN /\ \E r \in answers : NonEyeAnswer(board, stone, r)
           /\ \E r \in answers : EyeAnswer(board, stone, r)

\* C21 amended: for such a color, on a board of at most 50 points, RandomAI
\* can always answer with a non-eye point, and it can answer with an eye
\* point exactly when the color has fewer than 3 legal non-eye points.
C21_EyeFillingBelowThreeNonEyeMoves ==
  CanProbe /\ size * size <= MAX_SCAN_POSITIONS =>
    \A stone \in Stone :
      ManyEyesBothKinds(board, stone) =>
        LET answers == RandomAIGetMove(board, stone)
        IN /\ \E r \in answers : NonEyeAnswer(board, stone, r)
           /\ (\E r \in answers : EyeAnswer(board, stone, r))
                <=> Cardinality(LegalNonEyePoints(board, stone)) < 3

\* C21 witness: RandomAI has answered with an eye of a color that has more
\* than 2 eyes and a legal non-eye point.
C21_Witness ==
  /\ last.op = "RandomAI" /\ last.ret = "Some"
  /\ ManyEyesBothKinds(board, last.stone)
  /\ IsEye(board, last.x, last.y, last.stone)

\* The position after a legal move.
After(b, stone, p) == PlaceStone(b, p[1], p[2], stone).board

LegalPoints(b, stone) == {p \in Points : LegalPoint(b, stone, p)}

\* The answer of the agent asked last, as a point.
Answer == <<last.x, last.y>>

\* p is the first point in row-major order with the highest value among the
\* points of a set, value being a function on the set.
FirstBest(points, value, p) ==
  /\ p \in points
  /\ \A q \in points :
       /\ value[q] <= value[p]
       /\ Index(q[1], q[2]) < Index(p[1], p[2]) => value[q] < value[p]

\* The static evaluation, for a color, of the position after each of its
\* legal moves.
ScoreAfter(b, stone) ==
  [q \in LegalPoints(b, stone) |-> EvaluateBoard(After(b, stone, q), stone)]

\* C22: MinimaxAI of depth 1 answers None when the color has no legal move,
\* and otherwise the legal move whose successor position has the highest
\* static evaluation for the color, the first such move in row-major order;
\* it makes one static evaluation for each legal move and no search below.
C22_DepthOneIsGreedy ==
  last.op = "MinimaxAI" /\ minimax_ai.max_depth = 1 =>
    \A score \in {ScoreAfter(board, last.stone)} :
      IF DOMAIN score = {}
      THEN last.ret = "None" /\ minimax_ai.eval_count = 0
      ELSE /\ last.ret = "Some"
           /\ FirstBest(DOMAIN score, score, Answer)
           /\ minimax_ai.eval_count = Cardinality(DOMAIN score)

\* C22 witness: MinimaxAI of depth 1 has answered with the first of two
\* equally scored best moves while a third legal move scores lower.
C22_Witness ==
  /\ last.op = "MinimaxAI" /\ minimax_ai.max_depth = 1 /\ last.ret = "Some"
  /\ \E score \in {ScoreAfter(board, last.stone)} :
       /\ \E q \in DOMAIN score : q # Answer /\ score[q] = score[Answer]
       /\ \E q \in DOMAIN score : score[q] < score[Answer]

\* The largest and the smallest number of a non-empty set.
SetMax(S) == CHOOSE v \in S : \A w \in S : w <= v

SetMin(S) == CHOOSE v \in S : \A w \in S : v <= w

\* Minimax without pruning: the static evaluation for original_stone at depth
\* 0 or when the color to move has no legal move, and otherwise the largest
\* (on the plies of original_stone) or smallest (on the other plies) value of
\* the successor positions.
RECURSIVE ExhaustiveValue(_, _, _, _, _)
ExhaustiveValue(b, depth, maximizing, stone, original_stone) ==
  LET legal == LegalPoints(b, stone)
  IN IF depth = 0 \/ legal = {} THEN EvaluateBoard(b, original_stone)
     ELSE LET values == {ExhaustiveValue(After(b, stone, p), depth - 1,
                                         ~maximizing, Opposite(stone),
                                         original_stone) : p \in legal}
          IN IF maximizing THEN SetMax(values) ELSE SetMin(values)

\* The number of static evaluations minimax without pruning makes.
RECURSIVE ExhaustiveCount(_, _, _)
RECURSIVE ExhaustiveCountFrom(_, _, _, _, _)
ExhaustiveCountFrom(b, depth, stone, moves, i) ==
  IF i > Len(moves) THEN 0
  ELSE ExhaustiveCount(After(b, stone, moves[i]), depth - 1, Opposite(stone))
       + ExhaustiveCountFrom(b, depth, stone, moves, i + 1)

ExhaustiveCount(b, depth, stone) ==
  LET moves == ValidMoves(b, stone, 0, << >>)
  IN IF depth = 0 \/ moves = << >> THEN 1
     ELSE ExhaustiveCountFrom(b, depth, stone, moves, 1)

\* The value, by minimax without pruning over the depth - 1 plies that
\* follow, of the position after each legal move of a color.
ValueAfter(b, stone, depth) ==
  [q \in LegalPoints(b, stone) |->
     ExhaustiveValue(After(b, stone, q), depth - 1, FALSE, Opposite(stone),
                     stone)]

\* C26: MinimaxAI of depth d >= 1 answers None when the color has no legal
\* move, and otherwise the legal move with the highest value by minimax
\* without pruning over the d - 1 plies that follow it, the first such move in
\* row-major order.
C26_AlphaBetaIsMinimax ==
  last.op = "MinimaxAI" =>
    \A value \in {ValueAfter(board, last.stone, minimax_ai.max_depth)} :
      IF DOMAIN value = {} THEN last.ret = "None"
      ELSE last.ret = "Some" /\ FirstBest(DOMAIN value, value, Answer)

\* C26 witness: MinimaxAI of depth 3 or more has answered after fewer static
\* evaluations than minimax without pruning makes (a branch was cut), in a
\* position where the legal moves do not all have the same value.
C26_Witness ==
  /\ last.op = "MinimaxAI" /\ minimax_ai.max_depth >= 3 /\ last.ret = "Some"
  /\ minimax_ai.eval_count
       < ExhaustiveCount(board, minimax_ai.max_depth, last.stone)
  /\ \E value \in {ValueAfter(board, last.stone, minimax_ai.max_depth)} :
       \E q \in DOMAIN value : value[q] < value[Answer]

\* The points of a sequence of moves.
PointsOf(moves) == {moves[i] : i \in 1..Len(moves)}

\* The candidate i has a better win rate than the candidate j, both with a
\* game simulated.
BetterRate(i, j) ==
  mc.move_wins[i] * mc.move_games[j] > mc.move_wins[j] * mc.move_games[i]

\* C23: the candidates of MonteCarloAI::get_move are the legal non-eye points
\* of the color when it holds 2 eyes or fewer, and get_move answers None when
\* there is none; they are all the legal points otherwise.  Its answer is the
\* first candidate in the order of the scan among the simulated candidates of
\* the highest win rate, and the first candidate when no simulated game was
\* won.
C23_MonteCarloPicksBestRate ==
  mc.pc # "idle" =>
    LET few_eyes == CountEyesForColor(board, mc.stone) <= 2
        expected == IF few_eyes THEN LegalNonEyePoints(board, mc.stone)
                    ELSE LegalPoints(board, mc.stone)
        n == Len(mc.valid_moves)
        played == {i \in 1..n : mc.move_games[i] > 0}
    IN /\ PointsOf(mc.valid_moves) = expected
       /\ \A i, j \in 1..n :
            i < j => Index(mc.valid_moves[i][1], mc.valid_moves[i][2])
                       < Index(mc.valid_moves[j][1], mc.valid_moves[j][2])
       /\ expected = {} => mc.pc = "done" /\ last.ret = "None"
       /\ mc.pc = "done" /\ expected # {} =>
            /\ last.ret = "Some"
            /\ IF \A i \in played : mc.move_wins[i] = 0
               THEN Answer = mc.valid_moves[1]
               ELSE \E i \in played :
                      /\ Answer = mc.valid_moves[i]
                      /\ \A j \in played : ~BetterRate(j, i)
                      /\ \A j \in played : j < i => BetterRate(i, j)

\* C23 witness: MonteCarloAI has answered with a candidate that is not the
\* first, for a color with more than 2 eyes among whose candidates is an eye,
\* while a later candidate has the same win rate and an earlier one a lower
\* one.
C23_Witness ==
  /\ mc.pc = "done" /\ last.ret = "Some"
  /\ CountEyesForColor(board, mc.stone) > 2
  /\ \E p \in PointsOf(mc.valid_moves) : IsEye(board, p[1], p[2], mc.stone)
  /\ \E i \in 2..Len(mc.valid_moves) :
       /\ Answer = mc.valid_moves[i]
       /\ \E j \in (i + 1)..Len(mc.valid_moves) :
            mc.move_games[j] > 0 /\ ~BetterRate(i, j) /\ ~BetterRate(j, i)
       /\ \E j \in 1..(i - 1) : BetterRate(i, j)

\* C24: Mcts::get_move on a position with exactly one legal point for the
\* color to move returns that point at once: no tree is created and no
\* iteration (so no simulation) is run.
C24_SingleLegalPointReturnedAtOnce ==
  last.op \in {"run_mcts", "Mcts"}
  /\ Cardinality(LegalPoints(board, last.stone)) = 1 =>
    /\ last.op = "Mcts" /\ last.ret = "Some"
    /\ Answer \in LegalPoints(board, last.stone)
    /\ mcts.pc = "done" /\ mcts.nodes = << >> /\ mcts.iterations = 0

\* C24 witness: Mcts has answered on a position where the color has exactly one
\* legal point, and both colors have stones on the board.
C24_Witness ==
  /\ last.op = "Mcts" /\ last.ret = "Some" /\ mcts.pc = "done"
  /\ Cardinality(LegalPoints(board, last.stone)) = 1
  /\ CountStones(board)[1] > 0 /\ CountStones(board)[2] > 0

\* The elements of a sequence.
Range(seq) == {seq[i] : i \in 1..Len(seq)}

\* The search loop of run_mcts has ended and the answer is given.
SearchEnded == mcts.pc = "done" /\ mcts.nodes # << >>

\* The root children whose move is the answer.
AnswerChildren ==
  {c \in Range(mcts.nodes[1].children) :
     mcts.nodes[c].move_pos = [some |-> TRUE, x |-> last.x, y |-> last.y]}

\* C25: after its search loop ends, Mcts returns the move of a root child whose
\* visit count is maximal among the root children, whatever the win rates of
\* the children are.
C25_ReturnsMostVisitedChild ==
  SearchEnded /\ mcts.nodes[1].children # << >> =>
    /\ last.op = "Mcts" /\ last.ret = "Some"
    /\ \E c \in AnswerChildren :
         \A d \in Range(mcts.nodes[1].children) :
           mcts.nodes[d].visits <= mcts.nodes[c].visits

\* C25 witness: the child returned has more visits than another child whose
\* win rate for the root's color is higher.
C25_Witness ==
  /\ SearchEnded /\ last.ret = "Some"
  /\ \E c \in AnswerChildren :
       \E d \in Range(mcts.nodes[1].children) :
         /\ 0 < mcts.nodes[d].visits
         /\ mcts.nodes[d].visits < mcts.nodes[c].visits
         /\ WinRateNumerator(mcts.nodes[d], mcts.stone) * mcts.nodes[c].visits
              > WinRateNumerator(mcts.nodes[c], mcts.stone) * mcts.nodes[d].visits

\* The visits of the children of a node, from the i-th child on, added up.
RECURSIVE ChildrenVisits(_, _, _)
ChildrenVisits(nodes, node, i) ==
  IF i > Len(nodes[node].children) THEN 0
  ELSE nodes[nodes[node].children[i]].visits
       + ChildrenVisits(nodes, node, i + 1)

\* The visits of a node of the tree, 0 for a node that does not exist yet.
VisitsOf(nodes, i) == IF i <= Len(nodes) THEN nodes[i].visits ELSE 0

\* A path of the tree: it starts at the root and every node on it is a child
\* of the node before it.
IsPathFromRoot(nodes, path) ==
  /\ path # << >> /\ path[1] = 1
  /\ \A k \in 1..(Len(path) - 1) :
       path[k + 1] \in Range(nodes[path[k]].children)

\* The counters of the tree after any number of iterations.
VisitCountsConsistent ==
  mcts.nodes # << >> =>
    /\ mcts.nodes[1].visits = mcts.iterations
    /\ \A i \in 1..Len(mcts.nodes) :
         /\ 0 <= mcts.nodes[i].black_wins
         /\ mcts.nodes[i].black_wins <= mcts.nodes[i].visits
         /\ mcts.nodes[i].visits >= ChildrenVisits(mcts.nodes, i, 1)

\* One iteration: the recorded path runs from the root to the node created
\* (or to the node selection stopped at when none is created), and the visits
\* grow by one on the path and nowhere else.
IterationCountsPath ==
  mcts'.iterations = mcts.iterations + 1 =>
    /\ IsPathFromRoot(mcts'.nodes, mcts'.path)
    /\ Len(mcts'.nodes) > Len(mcts.nodes) =>
         mcts'.path[Len(mcts'.path)] = Len(mcts'.nodes)
    /\ \A i \in 1..Len(mcts'.nodes) :
         mcts'.nodes[i].visits =
           VisitsOf(mcts.nodes, i)
             + (IF i \in Range(mcts'.path) THEN 1 ELSE 0)

\* C27: each MCTS iteration adds exactly 1 to the visit count of every node on
\* the recorded path from the root to the newly expanded (or terminal) node
\* and of no other node; so after k iterations root.visits = k, every node has
\* 0 <= black_wins <= visits, and the visits of a node are at least the sum of
\* the visits of its children.
C27_VisitCounts ==
  /\ []VisitCountsConsistent
  /\ [][IterationCountsPath]_vars

\* C27 witness: after three iterations or more the recorded path has three
\* nodes, some node off the path has been visited, and some node has a count
\* of Black wins strictly between 0 and its visits.
C27_Witness ==
  /\ mcts.pc = "searching" /\ mcts.iterations >= 3
  /\ Len(mcts.path) >= 3
  /\ \E i \in 1..Len(mcts.nodes) :
       i \notin Range(mcts.path) /\ mcts.nodes[i].visits > 0
  /\ \E i \in 1..Len(mcts.nodes) :
       0 < mcts.nodes[i].black_wins
       /\ mcts.nodes[i].black_wins < mcts.nodes[i].visits

\* The turns a random game has begun stay within 2*N*N for MonteCarloAI and
\* within N*N for Mcts; a game still being played is below its cap, and a
\* game that ended before its cap ended on two consecutive passes.
RolloutWithinCap ==
  /\ rollout.agent = "MonteCarloAI" => rollout.turns <= 2 * size * size
  /\ rollout.agent = "Mcts" => rollout.turns <= size * size
  /\ rollout.pc = "playing" =>
       /\ rollout.consecutive_passes < 2
       /\ rollout.agent = "MonteCarloAI" => rollout.turns < 2 * size * size
       /\ rollout.agent = "Mcts" => rollout.turns < size * size
  /\ rollout.pc = "ended" /\ rollout.turns > 0 =>
       \/ rollout.consecutive_passes >= 2
       \/ rollout.agent = "MonteCarloAI" /\ rollout.turns = 2 * size * size
       \/ rollout.agent = "Mcts" /\ rollout.turns = size * size

\* Every step of a random game being played is one more turn of it, and a
\* game that has ended stays as it ended.
RolloutAdvances ==
  /\ rollout.pc = "playing" /\ rollout' # rollout =>
       /\ rollout'.turns = rollout.turns + 1
       /\ rollout'.pc \in {"playing", "ended"}
       /\ rollout'.agent = rollout.agent
  /\ rollout.pc = "ended" => rollout' = rollout

\* C30: every random rollout terminates: MonteCarloAI::simulate_game ends
\* after at most 2*N*N turns and Mcts::simulate after at most N*N turns on an
\* N x N board (or earlier on two consecutive passes), whatever moves are
\* drawn, captures that reopen the board included.  Each step of a game adds
\* one to its turns, the turns never pass the cap, and a game at its cap or
\* with two passes has ended.
C30_RolloutsTerminate ==
  /\ []RolloutWithinCap
  /\ [][RolloutAdvances]_vars

\* C30 witness: a random game was stopped by its cap, not by passes, after
\* both colors had captured stones in it.
C30_Witness ==
  /\ rollout.pc = "ended" /\ rollout.consecutive_passes < 2
  /\ rollout.turns = IF rollout.agent = "MonteCarloAI" THEN 2 * size * size
                     ELSE size * size
  /\ GetCaptured(rollout.sim_board)[1] > GetCaptured(board)[1]
  /\ GetCaptured(rollout.sim_board)[2] > GetCaptured(board)[2]

\* The simulations through a node that a color won, by the history kept
\* beside the node.
WonBy(i, player) ==
  IF player = "Black" THEN mcts.notes[i].won_black
  ELSE mcts.notes[i].won_white

\* The win rate of a visited node for a color, in millionths as uct_value
\* rounds it, if it is the fraction of the simulations through the node that
\* the color won.
WonRate(i, player) ==
  IF player = "Black"
  THEN (WonBy(i, "Black") * 1000000) \div mcts.nodes[i].visits
  ELSE 1000000
       - ((mcts.nodes[i].visits - WonBy(i, "White")) * 1000000)
           \div mcts.nodes[i].visits

\* C28: the win rate uct_value ranks a child by is the fraction of the
\* simulations through the child that the player to move at the parent won:
\* a simulation counts as a win for at most one color, and a close (drawn)
\* simulation for neither.
C28_WinRateIsParentsWins ==
  \A i \in 2..Len(mcts.nodes) :
    mcts.nodes[i].visits > 0 =>
      \A parent \in {mcts.nodes[mcts.notes[i].parent]} :
        UctValue(mcts.nodes[i], parent.visits, parent.player_to_move)
          = WonRate(i, parent.player_to_move)
            + ExplorationTerm[parent.visits][mcts.nodes[i].visits]

\* The position of a node: the moves from the root down to it, played on the
\* board run_mcts was given.
RECURSIVE PositionOf(_)
PositionOf(i) ==
  IF i = 1 THEN board
  ELSE LET parent == mcts.notes[i].parent
           move == mcts.nodes[i].move_pos
       IN PlaceStone(PositionOf(parent), move.x, move.y,
                     mcts.nodes[parent].player_to_move).board

\* The moves of the children of a node.
ChildMoves(nodes, i) ==
  {<<nodes[c].move_pos.x, nodes[c].move_pos.y>> : c \in Range(nodes[i].children)}

\* At every node the children's moves and the untried moves are disjoint and
\* without duplicates, and together they are the candidate moves computed for
\* the node's position when it was created.
MovesPartitioned ==
  \A i \in 1..Len(mcts.nodes) :
    \A node \in {mcts.nodes[i]} :
      /\ ChildMoves(mcts.nodes, i) \cap Range(node.untried_moves) = {}
      /\ Cardinality(ChildMoves(mcts.nodes, i)) = Len(node.children)
      /\ Cardinality(Range(node.untried_moves)) = Len(node.untried_moves)
      /\ ChildMoves(mcts.nodes, i) \cup Range(node.untried_moves)
           = Range(mcts.notes[i].available_moves)
      /\ mcts.notes[i].available_moves
           = GetValidMoves(PositionOf(i), node.player_to_move)
      /\ \A c \in Range(node.children) :
           /\ mcts.nodes[c].move_pos.some
           /\ mcts.notes[c].parent = i

\* One iteration: at most one node is created, as the last child of the node
\* selection stopped at, for a move taken from that node's untried moves, with
\* the opposite color to move; the nodes selection went through before it
\* stopped had no untried move and a child.
IterationExpandsOnce ==
  mcts'.iterations = mcts.iterations + 1 =>
    \E created \in {Len(mcts'.nodes) - Len(mcts.nodes)} :
    \E stop \in {Len(mcts'.path) - created} :
      /\ created \in {0, 1}
      /\ stop >= 1
      /\ \A i \in 1..Len(mcts.nodes) :
           /\ mcts'.nodes[i].move_pos = mcts.nodes[i].move_pos
           /\ mcts'.nodes[i].player_to_move = mcts.nodes[i].player_to_move
           /\ i # mcts'.path[stop] =>
                /\ mcts'.nodes[i].children = mcts.nodes[i].children
                /\ mcts'.nodes[i].untried_moves = mcts.nodes[i].untried_moves
      /\ \A k \in 1..(stop - 1) :
           /\ mcts.nodes[mcts'.path[k]].untried_moves = << >>
           /\ mcts.nodes[mcts'.path[k]].children # << >>
      /\ created = 1 =>
           \E parent \in {mcts'.path[stop]} :
           \E child \in {Len(mcts'.nodes)} :
           \E move \in {<<mcts'.nodes[child].move_pos.x,
                          mcts'.nodes[child].move_pos.y>>} :
             /\ mcts'.path[Len(mcts'.path)] = child
             /\ mcts'.nodes[parent].children
                  = Append(mcts.nodes[parent].children, child)
             /\ move \in Range(mcts.nodes[parent].untried_moves)
             /\ move \notin Range(mcts'.nodes[parent].untried_moves)
             /\ Len(mcts'.nodes[parent].untried_moves)
                  = Len(mcts.nodes[parent].untried_moves) - 1
             /\ mcts'.nodes[child].player_to_move
                  = Opposite(mcts.nodes[parent].player_to_move)
             /\ mcts'.nodes[child].children = << >>
      /\ created = 0 =>
           /\ mcts.nodes[mcts'.path[stop]].untried_moves = << >>
           /\ mcts'.nodes[mcts'.path[stop]].children
                = mcts.nodes[mcts'.path[stop]].children

\* C29: each MCTS iteration creates at most one new node, as a child of the
\* node reached by selection, for a move taken out of that node's untried
\* list, with the opposite color as player_to_move; at every node the moves of
\* its children and its untried moves are disjoint, without duplicates, and
\* together the candidate moves computed for the node's position when it was
\* created; selection descends only through nodes with no untried moves and
\* at least one child.
C29_ExpansionKeepsMovePartition ==
  /\ []MovesPartitioned
  /\ [][IterationExpandsOnce]_vars

\* C29 witness: selection went down from a root with two children or more
\* and no untried move left, and the iteration created a node below a child of
\* the root.
C29_Witness ==
  /\ mcts.pc = "searching" /\ Len(mcts.path) >= 3
  /\ mcts.path[Len(mcts.path)] = Len(mcts.nodes)
  /\ mcts.nodes[1].untried_moves = << >>
  /\ Len(mcts.nodes[1].children) >= 2
  /\ mcts.nodes[mcts.path[2]].children = <<Len(mcts.nodes)>>

\* ---- Capture and self-capture ------------------------------------------------
\* The cells of grid g that hold a stone of a color.
CellsOf(g, stone) == {i \in Cells : g[i] = StoneToU8(stone)}

\* The last operation was a place_stone that returned Ok.
Placed == last.op = "place_stone" /\ last.ret = "Ok"

\* The stones of the other color that the last place_stone took off.
OpposingRemoved ==
  CellsOf(last.before.grid, Opposite(last.stone))
    \ CellsOf(board.grid, Opposite(last.stone))

\* The stones of the mover's color that the last place_stone took off.
OwnRemoved ==
  (CellsOf(last.before.grid, last.stone) \cup {Index(last.x, last.y)})
    \ CellsOf(board.grid, last.stone)

\* C31: capture and self-capture never happen in the same place_stone call: a
\* call that removed an opposing stone leaves the placed stone on the board
\* and removes no stone of the mover; the placed stone's group is removed only
\* by a call that captured nothing.
C31_CaptureExcludesSelfCapture ==
  Placed =>
    /\ OpposingRemoved # {} =>
         /\ board.grid[Index(last.x, last.y)] = StoneToU8(last.stone)
         /\ OwnRemoved = {}
    /\ OwnRemoved # {} =>
         /\ OpposingRemoved = {}
         /\ board.captured = last.before.captured

\* C31 witness: a stone was placed on a point all of whose neighbours were
\* occupied, next to a group of its own color, and it captured: the placed
\* group had no liberty until the opposing stones were taken off.
C31_Witness ==
  /\ Placed /\ OpposingRemoved # {}
  /\ \E nb \in {GetNeighborsArray(last.x, last.y)} :
       /\ \A i \in 1..Len(nb) : GetRaw(last.before.grid, nb[i][1], nb[i][2]) # EMPTY
       /\ \E i \in 1..Len(nb) :
            GetRaw(last.before.grid, nb[i][1], nb[i][2]) = StoneToU8(last.stone)

\* ---- Legality and placement ----------------------------------------------------
\* The stone that place_stone(p, stone) leaves at p on board b.
StaysAfterPlacing(b, stone, p) ==
  After(b, stone, p).grid[Index(p[1], p[2])] = StoneToU8(stone)

\* C32: legality and placement agree: on every reachable board, for each color
\* and each empty point of the board, is_valid_move is true exactly when
\* place_stone leaves the placed stone on the point; and a place_stone at a
\* point that is_valid_move accepted on the board before the call removes no
\* stone of the mover and raises the mover's number of stones by exactly 1.
\* (is_valid_move takes &self and leaves the board as it was, so the boards
\* are examined in the initial state and after each place_stone.)
C32_LegalityAgreesWithPlacement ==
  /\ last.op # "is_valid_move" =>
       \A p \in Points : \A stone \in Stone :
         GetRaw(board.grid, p[1], p[2]) = EMPTY =>
           (IsValidMove(board, p[1], p[2], stone) <=> StaysAfterPlacing(board, stone, p))
  /\ Placed /\ IsValidMove(last.before, last.x, last.y, last.stone) =>
       /\ OwnRemoved = {}
       /\ Cardinality(CellsOf(board.grid, last.stone))
            = Cardinality(CellsOf(last.before.grid, last.stone)) + 1

\* C32 witness: is_valid_move accepted a point whose neighbours all held
\* opposing stones, the stone was placed there and it captured; on the board
\* it left, a color has a suicide point that is_valid_move refuses.
C32_Witness ==
  /\ Placed /\ IsValidMove(last.before, last.x, last.y, last.stone)
  /\ OpposingRemoved # {}
  /\ \E nb \in {GetNeighborsArray(last.x, last.y)} :
       \A i \in 1..Len(nb) :
         GetRaw(last.before.grid, nb[i][1], nb[i][2]) = StoneToU8(Opposite(last.stone))
  /\ \E p \in Points : \E stone \in Stone :
       /\ GetRaw(board.grid, p[1], p[2]) = EMPTY
       /\ ~IsValidMove(board, p[1], p[2], stone)
       /\ ~StaysAfterPlacing(board, stone, p)

\* ---- The answers of the agents ---------------------------------------------
AgentOps == {"RandomAI", "MinimaxAI", "MonteCarloAI", "Mcts"}

\* The last call was a get_move of an agent and it returned Some(p).
AgentAnsweredSome == last.op \in AgentOps /\ last.ret = "Some"

AnswerIsLegal ==
  AgentAnsweredSome =>
    /\ last.x < size /\ last.y < size
    /\ GetRaw(board.grid, last.x, last.y) = EMPTY
    /\ IsValidMove(board, last.x, last.y, last.stone)

\* A get_move call leaves the board it was given as it was.
GetMoveKeepsBoard == last'.op \in AgentOps => board' = board

\* C33: every point returned as Some(p) by the get_move of RandomAI,
\* MinimaxAI, MonteCarloAI or Mcts is in bounds, empty and accepted by
\* is_valid_move for the color on the board that was passed in, and the call
\* leaves that board unchanged.
C33_AgentsAnswerLegalPoints ==
  /\ []AnswerIsLegal
  /\ [][GetMoveKeepsBoard]_vars

\* C33 witness: Mcts answered Some(p) on a position with stones of both colors
\* where another empty point is refused by is_valid_move for the color.
C33_Witness ==
  /\ last.op = "Mcts" /\ last.ret = "Some"
  /\ CellsOf(board.grid, "Black") # {} /\ CellsOf(board.grid, "White") # {}
  /\ \E p \in Points :
       /\ GetRaw(board.grid, p[1], p[2]) = EMPTY
       /\ ~IsValidMove(board, p[1], p[2], last.stone)

\* ---- Game::play between two agents ---------------------------------------------
\* The longest board_history of a game between agents.
MaxAgentMoves == 11

\* The `Some((x, y)) => { ... }` arm of Game::play for the answer of an agent.
SubmitMove(x, y) ==
  IF ~IsValidMove(board, x, y, current_turn)
  THEN Reject(x, y, "invalid")
  ELSE LET test == PlaceStone(board, x, y, current_turn)
       IN IF ~test.ok
          THEN Reject(x, y, "cannot place")
          ELSE IF KoViolation(board_history, GetHash(test.board))
          THEN Reject(x, y, "ko")
          ELSE /\ board' = test.board
               /\ consecutive_passes' = 0
               /\ previous_board' = board
               /\ board_history' = Append(board_history, GetHash(test.board))
               /\ current_turn' = Opposite(current_turn)
               /\ last' = Said("play", x, y, current_turn, "committed")
               /\ ko_watch' = WatchAfterMove(x, y, "committed")
               /\ turns_parity' = (turns_parity + 1) % 2
               /\ UNCHANGED <<size, agentVars, pc, outcome>>

\* One iteration of the loop of Game::play when it is the turn of player1, a
\* MinimaxAI::new(1) that plays Black.  eval_count, which no decision reads,
\* is not followed through the game.
MinimaxTurn ==
  /\ pc = "InProgress" /\ current_turn = "Black"
  /\ Len(board_history) <= MaxAgentMoves
  /\ \E r \in {MinimaxAIGetMove(board, current_turn, 1)} :
       IF r.move.some THEN SubmitMove(r.move.x, r.move.y) ELSE PlayPass

\* One iteration of the loop when it is the turn of player2, a RandomAI that
\* plays White.
RandomTurn ==
  /\ pc = "InProgress" /\ current_turn = "White"
  /\ Len(board_history) <= MaxAgentMoves
  /\ \E r \in RandomAIGetMove(board, current_turn) :
       IF r.some THEN SubmitMove(r.x, r.y) ELSE PlayPass

AgentGameNext ==
  \/ MinimaxTurn
  \/ RandomTurn

\* game.play(&MinimaxAI::new(1), &RandomAI::new()) on Game::new(Size).
AgentGameSpec == Init /\ [][AgentGameNext]_vars

\* Game::play ends the turn on this answer of the player to move: a pass, or
\* a move that it commits.
EndsTurn(r) ==
  \/ ~r.some
  \/ /\ IsValidMove(board, r.x, r.y, current_turn)
     /\ \E test \in {PlaceStone(board, r.x, r.y, current_turn)} :
          test.ok /\ ~KoViolation(board_history, GetHash(test.board))

\* C34: Game::play always makes progress: in every reachable state of a game
\* in progress the turn ends in a committed move or a pass after finitely many
\* queries to the agent.  A rejected answer leaves the board, the color to
\* move and the history as they were, so the next query is the same query:
\* MinimaxAI, whose answer is a function of the board and the color, ends its
\* turn only if its answer is accepted, and RandomAI only if one of the
\* answers it can draw is.
C34_PlayMakesProgress ==
  pc = "InProgress" =>
    IF current_turn = "Black"
    THEN EndsTurn(MinimaxAIGetMove(board, current_turn, 1).move)
    ELSE \E r \in RandomAIGetMove(board, current_turn) : EndsTurn(r)

\* The loop of Game::play is stuck: MinimaxAI was asked, its answer was
\* rejected for Ko, and the same query is due again.
MinimaxStuckOnKo ==
  /\ pc = "InProgress" /\ current_turn = "Black"
  /\ last.op = "play" /\ last.ret = "ko"
  /\ ~EndsTurn(MinimaxAIGetMove(board, current_turn, 1).move)

\* ---- Stone accounting ----------------------------------------------------------
\* What the board accounts for of the stones a color has placed: its stones
\* on the board and the capture credit of the other color.
Accounted(b, stone) ==
  StonesOf(b.grid, stone)
    + (IF stone = "Black" THEN GetCaptured(b)[2] ELSE GetCaptured(b)[1])

\* The two scores (stones on the board plus own capture credit) add up to the
\* number of stones placed in the game, one for each entry of the history
\* after the first.
ScoresSumToPlaced ==
  StonesOf(board.grid, "Black") + GetCaptured(board)[1]
    + StonesOf(board.grid, "White") + GetCaptured(board)[2]
    = Len(board_history) - 1

\* A committed placement adds one to what is accounted for the mover and
\* nothing for the other color; any other step changes neither.
PlacementIsAccounted ==
  \A stone \in Stone :
    Accounted(board', stone)
      = Accounted(board, stone)
          + (IF board' # board /\ stone = current_turn THEN 1 ELSE 0)

\* C35: stone accounting: in a game from the empty board, where every stone
\* placed passed is_valid_move, the number of stones a color has placed is the
\* number of its stones on the board plus the capture credit of the other
\* color (nothing is accounted at the start and each placement adds one for
\* its color only); so the sum of both scores is the number of stones placed.
C35_StoneAccounting ==
  /\ Accounted(board, "Black") = 0 /\ Accounted(board, "White") = 0
  /\ []ScoresSumToPlaced
  /\ [][PlacementIsAccounted]_vars

\* C35 witness: a move was committed that captured, after the other color
\* had captured too.
C35_Witness ==
  /\ last.op = "play" /\ last.ret = "committed"
  /\ GetCaptured(board)[1] > 0 /\ GetCaptured(board)[2] > 0
  /\ previous_board # NoBoard
  /\ GetCaptured(board) # GetCaptured(previous_board)

\* ---- The None of Mcts ----------------------------------------------------------
\* C36: Mcts::get_move returns None only when the color to move has no legal
\* point at all: whenever a point satisfies is_valid_move it returns a move,
\* also when every legal point is an eye of the color and however few
\* iterations, zero included, fit into the time budget.
C36_NoneOnlyWithoutLegalPoint ==
  last.op = "Mcts" /\ last.ret = "None" => LegalPoints(board, last.stone) = {}

\* Mcts answered None although the color had two legal points or more: the
\* clock ran out before the first iteration and the root has no child.
MctsPassedWithLegalPoints ==
  /\ last.op = "Mcts" /\ last.ret = "None"
  /\ mcts.pc = "done" /\ mcts.iterations = 0
  /\ Len(mcts.nodes) = 1 /\ mcts.nodes[1].children = << >>
  /\ Cardinality(LegalPoints(board, last.stone)) >= 2

\* ---- The replays of Mcts ---------------------------------------------------------
\* The move stored in a node other than the root targets an in-bounds empty
\* cell of its parent's position, where place_stone returns Ok.
ChildMoveTargetsEmptyCell(i) ==
  \E move \in {mcts.nodes[i].move_pos} :
  \E parent \in {mcts.notes[i].parent} :
  \E b \in {PositionOf(parent)} :
    /\ move.some
    /\ move.x < size /\ move.y < size
    /\ GetRaw(b.grid, move.x, move.y) = EMPTY
    /\ PlaceStone(b, move.x, move.y, mcts.nodes[parent].player_to_move).ok

\* The selection phase of the next iteration replays its moves without a
\* fault, and stops on the position of the node it stops at, with that node's
\* color to move.
SelectionReplaysPath ==
  mcts.pc = "searching" =>
    \E selected \in {Selection(mcts.nodes, 1, board, mcts.stone, <<1>>)} :
      /\ ~selected.fault
      /\ selected.board = PositionOf(selected.node)
      /\ selected.player = mcts.nodes[selected.node].player_to_move

\* C37: during MCTS selection and expansion every replay of a stored child
\* move on the working board succeeds, the unwrap on place_stone never
\* faults: the board reached by replaying the path to a node is the board for
\* which the node's candidate moves were computed, so each child's move
\* targets an in-bounds empty cell.
C37_ReplaysSucceed ==
  /\ mcts.pc # "panicked"
  /\ SelectionReplaysPath
  /\ \A i \in 1..Len(mcts.nodes) :
       /\ i > 1 => ChildMoveTargetsEmptyCell(i)
       /\ mcts.notes[i].available_moves
            = GetValidMoves(PositionOf(i), mcts.nodes[i].player_to_move)

\* C37 witness: an iteration replayed the move of a child of the root and
\* created a node below it, and one of the two placements captured.
C37_Witness ==
  /\ mcts.pc = "searching" /\ Len(mcts.path) = 3
  /\ mcts.path[3] = Len(mcts.nodes)
  /\ mcts.notes[mcts.path[3]].parent = mcts.path[2]
  /\ GetCaptured(PositionOf(mcts.path[3])) # GetCaptured(board)

\* ---- The static evaluation ----------------------------------------------------
\* Stones on the board plus capture credit of a color.
ScoreOf(b, stone) ==
  StonesOf(b.grid, stone)
    + (IF stone = "Black" THEN GetCaptured(b)[1] ELSE GetCaptured(b)[2])

\* The value the evaluation is said to have for a color.
EvaluationOf(b, stone) ==
  100 * (ScoreOf(b, stone) - ScoreOf(b, Opposite(stone)))
    + 20 * (Min(CountEyesForColor(b, stone), 2)
              - Min(CountEyesForColor(b, Opposite(stone)), 2))

\* evaluate_board on board b is zero-sum and has the stated value.
ZeroSumOn(b) ==
  /\ EvaluateBoard(b, "Black") = -EvaluateBoard(b, "White")
  /\ \A stone \in Stone : EvaluateBoard(b, stone) = EvaluationOf(b, stone)

\* C38: the Minimax static evaluation is zero-sum: for every board,
\* evaluate_board(board, Black) = -evaluate_board(board, White), and its value
\* for a color is 100 * (own stones + own credit - opponent stones - opponent
\* credit) + 20 * (min(own eyes, 2) - min(opponent eyes, 2)).  Checked on
\* every position and on the positions MinimaxAI evaluates, those after each
\* legal move of either color.
C38_EvaluationIsZeroSum ==
  /\ ZeroSumOn(board)
  /\ \A stone \in Stone : \A p \in LegalPoints(board, stone) :
       ZeroSumOn(After(board, stone, p))

\* C38 witness: MinimaxAI of depth 1 answered a move after which the board
\* has a capture credit, the two colors have different numbers of eyes, and
\* the evaluation is not zero.
C38_Witness ==
  /\ last.op = "MinimaxAI" /\ minimax_ai.max_depth = 1 /\ last.ret = "Some"
  /\ \E b \in {After(board, last.stone, Answer)} :
       /\ GetCaptured(b) # <<0, 0>>
       /\ CountEyesForColor(b, "Black") # CountEyesForColor(b, "White")
       /\ ScoreOf(b, "Black") # ScoreOf(b, "White")
       /\ EvaluateBoard(b, last.stone) # 0

====
